---- MODULE Spec2Model ----
(***************************************************************************)
(* State-machine model of the sand-table motor tools of Talos-Table:       *)
(*   sl_*  Pattern-To-Path-To-Motion/Point_to_Point_Motion.py              *)
(*         (point-to-point tool with the in/out step limit)                *)
(*   fd_*  Final-Demo-Files/Point_to_Point_Motion.py                       *)
(*         (point-to-point tool with clicks, wrap and workspace check)     *)
(*   lr_*  Final-Demo-Files/Lin_Rot_Movement.py                            *)
(*         (absolute-target tool with the persisted position)              *)
(*                                                                         *)
(* Numbers.  The Python code works on floats; the model works on exact     *)
(* rationals over the inputs it draws:                                     *)
(*   - a length of the point-to-point tools is an integer count of half    *)
(*     millimetres (a coordinate of 161 is 80.5 mm);                       *)
(*   - an angle of the point-to-point tools is an integer count of         *)
(*     degrees; the input points lie on the coordinate axes, where atan2   *)
(*     and hypot are exact;                                                *)
(*   - a float coordinate is <<x, y, yneg0>>: yneg0 is the sign bit of a   *)
(*     zero y (-0.0, as float("-0") gives), which atan2 distinguishes;     *)
(*   - the slider values of the absolute-target tool are integer counts    *)
(*     of 0.1 degree and of 0.01 mm (the sliders' resolutions);            *)
(*   - 0.0679, 0.0675 and 0.3167 are 679, 675 and 3167 ten-thousandths.    *)
(***************************************************************************)
EXTENDS Integers, Sequences, FiniteSets, TLC

VARIABLES
    program,                 \* the script that was started: "sl", "fd" or "lr"
    \* ---- Pattern-To-Path-To-Motion/Point_to_Point_Motion.py ----
    sl_start_point,          \* None or a point
    sl_end_point,            \* None or a point
    sl_last_move,            \* <<rotation, in/out>> that undo_move sends
    sl_total_rotation_steps,
    sl_total_inout_steps,
    sl_result_label,         \* text of result_label, as a record of its numbers
    sl_call,                 \* the handler that ran last
    sl_dialog,               \* title of the messagebox it showed ("" if none)
    sl_exception,            \* the exception that ended the handler ("" if none)
    sl_sent,                 \* the lines it wrote to the serial port
    sl_moves,                \* moves and undos sent since the last reset (model bound)
    \* ---- Final-Demo-Files/Point_to_Point_Motion.py ----
    fd_start_point_mm,       \* None or a point
    fd_end_point_mm,         \* None or a point
    fd_point_selection_mode, \* "start" or "end"
    fd_last_move_steps,      \* <<rotation, in/out>> logical steps undo adds back
    fd_total_rotation_steps,
    fd_total_inout_steps,
    fd_result_label,
    fd_call,
    fd_dialog,
    fd_sent,
    fd_moves,
    fd_arduino_is_open,      \* arduino is set and arduino.is_open (line 183)
    fd_total_label,          \* the text of total_label
    fd_pending,              \* the user's events Tk has queued and not yet dispatched
    fd_stack,                \* the frames of the handlers that have not returned
    fd_write_errors,         \* error boxes (lines 189, 191) the last handler showed
    \* ---- Final-Demo-Files/Lin_Rot_Movement.py ----
    lr_positions,            \* the rows of table positions of motor_positions.db
    lr_theta_slider,         \* tenths of a degree
    lr_inout_slider,         \* hundredths of a millimetre
    lr_steps,                \* <<steps_theta, steps_in_out>> move_motors computed last
    lr_exception,            \* the exception that ended the handler ("" if none)
    lr_call,
    lr_sent,
    lr_last,                 \* history: the latest move_motors since the start or a
                             \* reset, the position it read and the lines it wrote
    \* ---- Steps-Calibration/Motor_Movement.py ----
    mm_theta_entry,          \* text of theta_entry, a sequence of characters
    mm_radius_entry,         \* text of radius_entry
    mm_theta_cumulative,     \* theta_cumulative[0]
    mm_radius_cumulative,    \* radius_cumulative[0]
    mm_dialogs,              \* titles of the messageboxes the last handler showed
    mm_exception,            \* the exception that ended the handler ("" if none)
    mm_call,
    mm_sent,                 \* the lines it wrote: <<axis, text>>
    mm_moves,                \* move_both calls that counted since the last reset (model bound)
    \* ---- Pattern-To-Path-To-Motion/Path_To_Motion.py ----
    pm_pattern_coords,       \* None, or the step pairs the plotted pattern converts to
    pm_file,                 \* None, or the step pairs in exported_steps.txt
    pm_ser,                  \* ser is not None
    pm_sim_window,           \* the simulation window is open
    pm_sim_steps,
    pm_sim_index,
    pm_sent,                 \* the MOVE lines written since begin_pathing
    pm_presses,              \* presses of the step button since begin_pathing
    pm_dialog,
    pm_exception,
    pm_call,
    \* ---- Pattern-to-Path/Path_Visualisation.py ----
    pv_pattern_coords,       \* len(pattern_coords)
    pv_windows,              \* the simulation windows, the last one being sim_root
    pv_path_len,             \* len(path_x)
    pv_current_index,
    pv_preview_running,
    pv_path_line_segments,   \* the index each drawn segment starts at
    pv_dialog,
    pv_exception,
    pv_call,
    \* ---- Steps-Calibration/Error_Checker.py ----
    ec_inout_mm_entry,       \* text of inout_mm_entry, a sequence of characters
    ec_rotation_mm_entry,    \* text of rotation_mm_entry
    ec_linear_label,         \* <<>>, or <<n>> with n the number linear_label shows
    ec_compensation_label,   \* <<>>, or <<n>> for n ten-thousandths as shown
    ec_dialog,
    ec_exception,
    ec_call,
    ec_sent

sl_vars == <<sl_start_point, sl_end_point, sl_last_move, sl_total_rotation_steps,
             sl_total_inout_steps, sl_result_label, sl_call, sl_dialog, sl_exception,
             sl_sent, sl_moves>>

fd_vars == <<fd_start_point_mm, fd_end_point_mm, fd_point_selection_mode,
             fd_last_move_steps, fd_total_rotation_steps, fd_total_inout_steps,
             fd_result_label, fd_call, fd_dialog, fd_sent, fd_moves,
             fd_arduino_is_open, fd_write_errors, fd_total_label, fd_pending,
             fd_stack>>

lr_vars == <<lr_positions, lr_theta_slider, lr_inout_slider, lr_steps, lr_exception,
             lr_call, lr_sent, lr_last>>

mm_vars == <<mm_theta_entry, mm_radius_entry, mm_theta_cumulative, mm_radius_cumulative,
             mm_dialogs, mm_exception, mm_call, mm_sent, mm_moves>>

pm_vars == <<pm_pattern_coords, pm_file, pm_ser, pm_sim_window, pm_sim_steps,
             pm_sim_index, pm_sent, pm_presses, pm_dialog, pm_exception, pm_call>>

pv_vars == <<pv_pattern_coords, pv_windows, pv_path_len, pv_current_index,
             pv_preview_running, pv_path_line_segments, pv_dialog, pv_exception,
             pv_call>>

ec_vars == <<ec_inout_mm_entry, ec_rotation_mm_entry, ec_linear_label,
             ec_compensation_label, ec_dialog, ec_exception, ec_call, ec_sent>>

vars == <<program, sl_vars, fd_vars, lr_vars, mm_vars, pm_vars, pv_vars, ec_vars>>

----------------------------------------------------------------------------
(* Bounds of the model *)

\* moves and undos sent per session (between two resets)
MaxMoves == 2

\* events the window system holds for the final demo's event loop
MaxPending == 2

\* presses of the step button followed in one simulation window
MaxPresses == 4

\* simulation windows of the path visualiser open at a time
MaxWindows == 2

\* points of the sampled pattern of the path visualiser (200 at line 40)
PatternPoints == 2

\* segments drawn again on one path of the path visualiser
MaxRedraws == 1

----------------------------------------------------------------------------
(* Python built-ins and math functions, on exact rationals p/q with q > 0 *)

Abs(n) == IF n < 0 THEN -n ELSE n

\* the Python None
None == <<>>

\* int(p/q): truncation toward zero
PyInt(p, q) == IF p >= 0 THEN p \div q ELSE -((-p) \div q)

\* round(p/q) with ties away from zero: what Python 3 does NOT do
RoundHalfAway(p, q) ==
    IF p >= 0 THEN (2 * p + q) \div (2 * q) ELSE -((2 * (-p) + q) \div (2 * q))

\* int(round(p/q)): Python 3 rounds to the nearest integer, ties to the even one
PyRound(p, q) ==
    LET fl == p \div q
        twice == 2 * (p - fl * q)
    IN  IF twice < q THEN fl
        ELSE IF twice > q THEN fl + 1
        ELSE IF fl % 2 = 0 THEN fl ELSE fl + 1

\* the integer square root, by Newton's iteration from the guess g
RECURSIVE isqrt_from(_, _)
isqrt_from(n, g) ==
    LET h == (g + n \div g) \div 2
    IN  IF h >= g THEN g ELSE isqrt_from(n, h)

\* math.hypot(x, y) where it is exact: x * x + y * y a perfect square
hypot(x, y) ==
    LET n == x * x + y * y
    IN  IF n = 0 THEN 0 ELSE isqrt_from(n, n)

\* math.degrees(math.atan2(y, x)) on the coordinate axes; yneg0 is the sign
\* bit of a zero y
atan2_degrees(y, yneg0, x) ==
    IF y > 0 THEN 90
    ELSE IF y < 0 THEN -90
    ELSE IF x >= 0 THEN 0
    ELSE IF yneg0 THEN -180 ELSE 180

----------------------------------------------------------------------------
(* Pattern-To-Path-To-Motion/Point_to_Point_Motion.py *)

sl_INOUT_STEPS_PER_MM == 33
\* 0.0679 degrees per step, in ten-thousandths
sl_ROTATION_DEG_PER_STEP == 679
\* 0.3167 in/out steps per rotation step, in ten-thousandths
sl_COMPENSATION_RATIO == 3167
sl_MAX_INOUT_STEPS == 4280
\* lines 51 and 54: the radii (mm) of the two circles drawn on the plot
sl_boundary_circle_radius == 130
sl_limit_circle_radius == 30

\* the points typed into the entries (half mm): (3, 0) cm at 0 degrees and
\* radius 30 mm, (-13, 0) cm at 180 degrees and 130 mm, (0, -2.55) cm at
\* -90 degrees and 25.5 mm
sl_Points == { <<60, 0, FALSE>>, <<-260, 0, FALSE>>, <<0, -51, FALSE>> }

\* an outcome of arduino.write: it returns, or it raises
WriteOutcomes == {"ok", "raise"}

\* the text of a result label: the numbers formatted into it
Label(text, dtheta, rot, dr, raw, comp, final) ==
    [text |-> text, dtheta |-> dtheta, rot |-> rot, dr |-> dr, raw |-> raw,
     comp |-> comp, final |-> final]
NoLabel == Label("", 0, 0, 0, 0, 0, 0)

sl_to_polar(p) == [theta |-> atan2_degrees(p[2], p[3], p[1]), r |-> hypot(p[1], p[2])]

\* line 83: delta_theta = theta2 - theta1 (no wrap)
sl_delta_theta(theta1, theta2) == theta2 - theta1

\* line 86: int(round(delta_theta / ROTATION_DEG_PER_STEP))
sl_rotation_steps(delta_theta) == PyRound(delta_theta * 10000, sl_ROTATION_DEG_PER_STEP)

\* line 87: int(round(delta_r * INOUT_STEPS_PER_MM)), delta_r in half mm
sl_inout_steps(delta_r) == PyRound(delta_r * sl_INOUT_STEPS_PER_MM, 2)

\* line 90: int(round(COMPENSATION_RATIO * rotation_steps))
sl_compensation_steps(rotation_steps) ==
    PyRound(sl_COMPENSATION_RATIO * rotation_steps, 10000)

\* line 91
sl_compensated_inout_steps(inout_steps, compensation_steps) ==
    inout_steps - compensation_steps

\* a limit check on the single move instead of the running total
sl_limit_exceeded_single_move(total, compensated) ==
    Abs(compensated) > sl_MAX_INOUT_STEPS

\* a limit check that forgets the absolute value
sl_limit_exceeded_no_abs(total, compensated) ==
    total + compensated > sl_MAX_INOUT_STEPS

\* lines 94-96: the limit check on the predicted running total
sl_limit_exceeded(total, compensated) == Abs(total + compensated) > sl_MAX_INOUT_STEPS

\* the whole computation of lines 80-91 for a drawn line
sl_move(start, end) ==
    LET p1 == sl_to_polar(start)
        p2 == sl_to_polar(end)
        delta_theta == sl_delta_theta(p1.theta, p2.theta)
        delta_r == p2.r - p1.r
        rotation_steps == sl_rotation_steps(delta_theta)
        inout_steps == sl_inout_steps(delta_r)
        compensation_steps == sl_compensation_steps(rotation_steps)
    IN  [delta_theta |-> delta_theta, delta_r |-> delta_r,
         rotation_steps |-> rotation_steps, inout_steps |-> inout_steps,
         compensation_steps |-> compensation_steps,
         compensated_inout_steps |->
             sl_compensated_inout_steps(inout_steps, compensation_steps)]

\* lines 63-70 as used at lines 106-111 and 125-130: the two conditional
\* writes and the totals.  arduino is set whenever the GUI exists (line 259);
\* a write that raises ends the handler there.  The result is the lines
\* written, the totals, and whether the handler ran to its end.
sl_send_both(rot, inout, wr, wi) ==
    LET r_raised == rot # 0 /\ wr = "raise"
        i_raised == ~r_raised /\ inout # 0 /\ wi = "raise"
        r_done == rot # 0 /\ ~r_raised
        i_done == inout # 0 /\ ~r_raised /\ ~i_raised
    IN  [sent |-> (IF r_done THEN << <<"r", rot>> >> ELSE <<>>)
                  \o (IF i_done THEN << <<"i", inout>> >> ELSE <<>>),
         total_rotation_steps |->
             IF r_done THEN sl_total_rotation_steps + rot ELSE sl_total_rotation_steps,
         total_inout_steps |->
             IF i_done THEN sl_total_inout_steps + inout ELSE sl_total_inout_steps,
         completed |-> ~r_raised /\ ~i_raised]

\* a last-move record that keeps the signs of the move
sl_inverse_move_not_negated(rotation_steps, compensated_inout_steps) ==
    <<rotation_steps, compensated_inout_steps>>

\* line 114: the record undo_move sends, the negated pair
sl_inverse_move(rotation_steps, compensated_inout_steps) ==
    <<-rotation_steps, -compensated_inout_steps>>

\* the bound of the model: a call that sends is explored while fewer than
\* MaxMoves calls have sent since the last reset
sl_within_bound(rot, inout) == (rot # 0 \/ inout # 0) => sl_moves < MaxMoves
sl_counted(rot, inout) == IF rot # 0 \/ inout # 0 THEN sl_moves + 1 ELSE sl_moves

\* lines 29-61; valid is whether the four entries parse as floats
sl_draw_line(valid, start, end) ==
    /\ sl_call' = "draw_line"
    /\ sl_sent' = <<>>
    /\ sl_exception' = ""
    /\ IF ~valid
       THEN /\ sl_dialog' = "Input Error"
            /\ UNCHANGED <<sl_start_point, sl_end_point>>
       ELSE /\ sl_dialog' = ""
            /\ sl_start_point' = start
            /\ sl_end_point' = end
    /\ UNCHANGED <<sl_last_move, sl_total_rotation_steps, sl_total_inout_steps,
                   sl_result_label, sl_moves>>

\* lines 72-114
sl_execute_move(wr, wi) ==
    /\ sl_call' = "execute_move"
    /\ IF sl_start_point = None \/ sl_end_point = None
       THEN /\ sl_dialog' = "Action Required"
            /\ sl_sent' = <<>>
            /\ sl_exception' = ""
            /\ UNCHANGED <<sl_last_move, sl_total_rotation_steps,
                           sl_total_inout_steps, sl_result_label, sl_moves>>
       ELSE LET m == sl_move(sl_start_point, sl_end_point) IN
            IF sl_limit_exceeded(sl_total_inout_steps, m.compensated_inout_steps)
            THEN /\ sl_dialog' = "Movement Limit Exceeded"
                 /\ sl_sent' = <<>>
                 /\ sl_exception' = ""
                 /\ UNCHANGED <<sl_last_move, sl_total_rotation_steps,
                                sl_total_inout_steps, sl_result_label, sl_moves>>
            ELSE LET s == sl_send_both(m.rotation_steps, m.compensated_inout_steps,
                                       wr, wi) IN
                 /\ sl_within_bound(m.rotation_steps, m.compensated_inout_steps)
                 /\ sl_moves' = sl_counted(m.rotation_steps, m.compensated_inout_steps)
                 /\ sl_dialog' = ""
                 /\ sl_result_label' =
                        Label("move", m.delta_theta, m.rotation_steps, m.delta_r,
                              m.inout_steps, m.compensation_steps,
                              m.compensated_inout_steps)
                 /\ sl_sent' = s.sent
                 /\ sl_exception' = IF s.completed THEN "" ELSE "SerialException"
                 /\ sl_total_rotation_steps' = s.total_rotation_steps
                 /\ sl_total_inout_steps' = s.total_inout_steps
                 /\ sl_last_move' =
                        IF s.completed
                        THEN sl_inverse_move(m.rotation_steps, m.compensated_inout_steps)
                        ELSE sl_last_move
    /\ UNCHANGED <<sl_start_point, sl_end_point>>

\* lines 116-134
sl_undo_move(wr, wi) ==
    /\ sl_call' = "undo_move"
    /\ IF sl_last_move[1] = 0 /\ sl_last_move[2] = 0
       THEN /\ sl_dialog' = "Undo"
            /\ sl_sent' = <<>>
            /\ sl_exception' = ""
            /\ UNCHANGED <<sl_last_move, sl_total_rotation_steps,
                           sl_total_inout_steps, sl_result_label, sl_moves>>
       ELSE LET s == sl_send_both(sl_last_move[1], sl_last_move[2], wr, wi) IN
            /\ sl_within_bound(sl_last_move[1], sl_last_move[2])
            /\ sl_moves' = sl_counted(sl_last_move[1], sl_last_move[2])
            /\ sl_dialog' = ""
            /\ sl_sent' = s.sent
            /\ sl_exception' = IF s.completed THEN "" ELSE "SerialException"
            /\ sl_total_rotation_steps' = s.total_rotation_steps
            /\ sl_total_inout_steps' = s.total_inout_steps
            /\ sl_last_move' = IF s.completed THEN <<0, 0>> ELSE sl_last_move
            /\ sl_result_label' =
                   IF s.completed THEN Label("Last move undone.", 0, 0, 0, 0, 0, 0)
                   ELSE sl_result_label
    /\ UNCHANGED <<sl_start_point, sl_end_point>>

\* lines 141-169
sl_reset_graph ==
    /\ sl_call' = "reset_graph"
    /\ sl_dialog' = ""
    /\ sl_exception' = ""
    /\ sl_sent' = <<>>
    /\ sl_start_point' = None
    /\ sl_end_point' = None
    /\ sl_last_move' = <<0, 0>>
    /\ sl_total_rotation_steps' = 0
    /\ sl_total_inout_steps' = 0
    /\ sl_result_label' = NoLabel
    /\ sl_moves' = 0

\* lines 15-20 and 220: the module's globals when the GUI starts
sl_Init ==
    /\ sl_start_point = None
    /\ sl_end_point = None
    /\ sl_last_move = <<0, 0>>
    /\ sl_total_rotation_steps = 0
    /\ sl_total_inout_steps = 0
    /\ sl_result_label = NoLabel
    /\ sl_call = "create_gui"
    /\ sl_dialog = ""
    /\ sl_exception = ""
    /\ sl_sent = <<>>
    /\ sl_moves = 0

\* this program is the one running; the others do not move
sl_running ==
    /\ program = "sl"
    /\ UNCHANGED <<program, fd_vars, lr_vars, mm_vars, pm_vars, pv_vars, ec_vars>>

\* the user's actions on the window
sl_Next ==
    \/ sl_running /\ \E start \in sl_Points, end \in sl_Points : sl_draw_line(TRUE, start, end)
    \/ sl_running /\ sl_draw_line(FALSE, None, None)
    \/ sl_running /\ \E wr \in WriteOutcomes, wi \in WriteOutcomes : sl_execute_move(wr, wi)
    \/ sl_running /\ \E wr \in WriteOutcomes, wi \in WriteOutcomes : sl_undo_move(wr, wi)
    \/ sl_running /\ sl_reset_graph

----------------------------------------------------------------------------
(* Final-Demo-Files/Point_to_Point_Motion.py *)

fd_INOUT_STEPS_PER_MM == 33
\* 0.0675 degrees per step, in ten-thousandths
fd_ROTATION_DEG_PER_STEP == 675
\* 0.3167 in/out steps per rotation step, in ten-thousandths
fd_COMPENSATION_RATIO == 3167
\* line 14, commented out in this file: no definition of the model uses it,
\* only the properties and the mutants that ask what a limit would do
fd_MAX_INOUT_STEPS == 4280
\* millimetres
fd_WORKSPACE_RADIUS_MM == 130
fd_INNER_LIMIT_RADIUS_MM == 30

\* the points clicked on the plot (half mm): radius 30 mm at 0 degrees, 130 mm
\* at 180 and at -180 degrees (y = -0.0), 80.5 mm at -90 degrees, and outside
\* the workspace 29.5 mm at -90 degrees and 130.5 mm at 90 degrees
fd_Points == { <<60, 0, FALSE>>, <<-260, 0, FALSE>>, <<-260, 0, TRUE>>,
               <<0, -161, FALSE>>, <<0, -59, FALSE>>, <<0, 261, FALSE>> }

\* the points typed into the four entries: three of the points above
fd_EntryPoints == { <<60, 0, FALSE>>, <<-260, 0, TRUE>>, <<0, 261, FALSE>> }

\* lines 40-55
fd_to_polar(p) == [theta |-> atan2_degrees(p[2], p[3], p[1]), r |-> hypot(p[1], p[2])]

\* a workspace check with strict comparisons: the two circles are excluded
fd_in_workspace_strict(r1, r2) ==
    /\ 2 * fd_INNER_LIMIT_RADIUS_MM < r1 /\ r1 < 2 * fd_WORKSPACE_RADIUS_MM
    /\ 2 * fd_INNER_LIMIT_RADIUS_MM < r2 /\ r2 < 2 * fd_WORKSPACE_RADIUS_MM

\* lines 212-213: both radii (half mm) inside the closed annulus
fd_in_workspace(r1, r2) ==
    /\ 2 * fd_INNER_LIMIT_RADIUS_MM <= r1 /\ r1 <= 2 * fd_WORKSPACE_RADIUS_MM
    /\ 2 * fd_INNER_LIMIT_RADIUS_MM <= r2 /\ r2 <= 2 * fd_WORKSPACE_RADIUS_MM

\* a difference of the angles that is not wrapped
fd_delta_theta_deg_not_wrapped(theta1, theta2) == theta2 - theta1

\* lines 217-219: the difference of the angles, wrapped
fd_delta_theta_deg(theta1, theta2) ==
    LET d == theta2 - theta1
    IN  IF d > 180 THEN d - 360
        ELSE IF d < -180 THEN d + 360
        ELSE d

\* line 222
fd_logical_rotation_steps(delta_theta_deg) ==
    PyRound(delta_theta_deg * 10000, fd_ROTATION_DEG_PER_STEP)

\* line 223, delta_r in half mm
fd_logical_inout_steps_raw(delta_r) == PyRound(delta_r * fd_INOUT_STEPS_PER_MM, 2)

\* line 224
fd_compensation_adjustment_steps(logical_rotation_steps) ==
    PyRound(fd_COMPENSATION_RATIO * logical_rotation_steps, 10000)

\* a compensation that is added instead of subtracted
fd_logical_inout_steps_compensation_added(raw, adjustment) == raw + adjustment

\* line 225
fd_logical_inout_steps_compensated(raw, adjustment) == raw - adjustment

\* lines 227-228: the wiring is reversed
fd_final_steps_to_send(logical_steps) == -logical_steps

\* the whole computation of lines 209-228 for a start and an end point
fd_move(start, end) ==
    LET p1 == fd_to_polar(start)
        p2 == fd_to_polar(end)
        delta_theta_deg == fd_delta_theta_deg(p1.theta, p2.theta)
        delta_r_mm == p2.r - p1.r
        rot == fd_logical_rotation_steps(delta_theta_deg)
        raw == fd_logical_inout_steps_raw(delta_r_mm)
        adj == fd_compensation_adjustment_steps(rot)
    IN  [in_workspace |-> fd_in_workspace(p1.r, p2.r),
         delta_theta_deg |-> delta_theta_deg, delta_r_mm |-> delta_r_mm,
         logical_rotation_steps |-> rot, logical_inout_steps_raw |-> raw,
         compensation_adjustment_steps |-> adj,
         logical_inout_steps_compensated |->
             fd_logical_inout_steps_compensated(raw, adj)]

\* lines 174-193: the line that reaches the device.  Without an open port
\* nothing is written (lines 192-193); a write that raises is caught and
\* reported, and the caller goes on.
fd_send_arduino_command(axis_char, steps_to_send, w) ==
    IF fd_arduino_is_open /\ w = "ok" THEN << <<axis_char, steps_to_send>> >> ELSE <<>>

\* the messagebox of lines 188-193 that the handler showed last, if any
fd_send_dialog(rot_to_send, inout_to_send, wr, wi) ==
    IF rot_to_send = 0 /\ inout_to_send = 0 THEN ""
    ELSE IF ~fd_arduino_is_open THEN "Not Connected"
    ELSE IF (rot_to_send # 0 /\ wr = "raise") \/ (inout_to_send # 0 /\ wi = "raise")
    THEN "Serial Error" ELSE ""

\* the number of writes that raised and were reported (lines 188-191)
fd_send_errors(rot_to_send, inout_to_send, wr, wi) ==
    IF ~fd_arduino_is_open THEN 0
    ELSE (IF rot_to_send # 0 /\ wr = "raise" THEN 1 ELSE 0)
         + (IF inout_to_send # 0 /\ wi = "raise" THEN 1 ELSE 0)

\* two sends of which the second is given up when the first write raised
fd_send_both_aborting(rot_to_send, inout_to_send, wr, wi) ==
    IF rot_to_send # 0 /\ wr = "raise" THEN <<>>
    ELSE (IF rot_to_send # 0 THEN fd_send_arduino_command("r", rot_to_send, wr) ELSE <<>>)
         \o (IF inout_to_send # 0 THEN fd_send_arduino_command("i", inout_to_send, wi)
             ELSE <<>>)

\* lines 237-242 and 278-283: the two conditional sends
fd_send_both(rot_to_send, inout_to_send, wr, wi) ==
    (IF rot_to_send # 0 THEN fd_send_arduino_command("r", rot_to_send, wr) ELSE <<>>)
    \o (IF inout_to_send # 0 THEN fd_send_arduino_command("i", inout_to_send, wi)
        ELSE <<>>)

\* a total that is held where the step limit of the other tool would be passed
fd_new_total_limited(total, steps_to_send, logical_steps) ==
    IF steps_to_send # 0 /\ Abs(total + logical_steps) <= fd_MAX_INOUT_STEPS
    THEN total + logical_steps ELSE total

\* lines 238-239, 241-242, 279-280 and 282-283: the total is advanced by the
\* logical steps when the value to send is not 0, whatever the write did
fd_new_total(total, steps_to_send, logical_steps) ==
    IF steps_to_send # 0 THEN total + logical_steps ELSE total

\* lines 300-306: the text total_label is given, read from the two totals
fd_update_totals_display(rotation_steps, inout_steps) ==
    [text |-> "Session Totals (Logical)", rotation |-> rotation_steps,
     inout |-> inout_steps]

\* the bound of the model: a call that sends is explored while fewer than
\* MaxMoves calls have sent since the last reset
fd_within_bound(rot, inout) == (rot # 0 \/ inout # 0) => fd_moves < MaxMoves
fd_counted(rot, inout) == IF rot # 0 \/ inout # 0 THEN fd_moves + 1 ELSE fd_moves

\* lines 104-148; inaxes is whether the click fell inside the plot axes
fd_on_plot_click(inaxes, clicked) ==
    /\ fd_call' = "on_plot_click"
    /\ fd_sent' = <<>>
    /\ fd_write_errors' = 0
    /\ IF ~inaxes
       THEN /\ fd_dialog' = ""
            /\ UNCHANGED <<fd_start_point_mm, fd_end_point_mm, fd_point_selection_mode>>
       ELSE IF fd_point_selection_mode = "start"
       THEN /\ fd_start_point_mm' = clicked
            /\ fd_end_point_mm' = None
            /\ fd_point_selection_mode' = "end"
            /\ fd_dialog' = ""
       ELSE IF fd_start_point_mm = None
       THEN /\ fd_dialog' = "Selection Order"
            /\ UNCHANGED <<fd_start_point_mm, fd_end_point_mm, fd_point_selection_mode>>
       ELSE /\ fd_end_point_mm' = clicked
            /\ fd_point_selection_mode' = "start"
            /\ fd_dialog' = ""
            /\ UNCHANGED fd_start_point_mm
    /\ UNCHANGED <<fd_last_move_steps, fd_total_rotation_steps, fd_total_inout_steps,
                   fd_result_label, fd_moves,
                   fd_total_label>>

\* lines 151-172; valid is whether the four entries parse as floats
fd_draw_line_from_entries(valid, start, end) ==
    /\ fd_call' = "draw_line_from_entries"
    /\ fd_sent' = <<>>
    /\ fd_write_errors' = 0
    /\ IF ~valid
       THEN /\ fd_dialog' = "Input Error"
            /\ UNCHANGED <<fd_start_point_mm, fd_end_point_mm>>
       ELSE /\ fd_dialog' = ""
            /\ fd_start_point_mm' = start
            /\ fd_end_point_mm' = end
    /\ UNCHANGED <<fd_point_selection_mode, fd_last_move_steps, fd_total_rotation_steps,
                   fd_total_inout_steps, fd_result_label, fd_moves,
                   fd_total_label>>

\* lines 195-256
fd_execute_move(wr, wi) ==
    /\ fd_call' = "execute_move"
    /\ IF fd_start_point_mm = None \/ fd_end_point_mm = None
       THEN /\ fd_dialog' = "Action Required"
            /\ fd_sent' = <<>>
            /\ fd_write_errors' = 0
            /\ UNCHANGED <<fd_start_point_mm, fd_end_point_mm, fd_point_selection_mode,
                           fd_last_move_steps, fd_total_rotation_steps,
                           fd_total_inout_steps, fd_result_label, fd_moves,
                   fd_total_label>>
       ELSE LET m == fd_move(fd_start_point_mm, fd_end_point_mm)
                rot == m.logical_rotation_steps
                inout == m.logical_inout_steps_compensated
                rot_to_send == fd_final_steps_to_send(rot)
                inout_to_send == fd_final_steps_to_send(inout)
            IN
            IF ~m.in_workspace
            THEN /\ fd_dialog' = "Workspace Violation"
                 /\ fd_sent' = <<>>
                 /\ fd_write_errors' = 0
                 /\ UNCHANGED <<fd_start_point_mm, fd_end_point_mm,
                                fd_point_selection_mode, fd_last_move_steps,
                                fd_total_rotation_steps, fd_total_inout_steps,
                                fd_result_label, fd_moves,
                   fd_total_label>>
            ELSE /\ fd_within_bound(rot, inout)
                 /\ fd_moves' = fd_counted(rot, inout)
                 /\ fd_result_label' =
                        Label("move", m.delta_theta_deg, rot, m.delta_r_mm,
                              m.logical_inout_steps_raw,
                              m.compensation_adjustment_steps, inout)
                 /\ fd_sent' = fd_send_both(rot_to_send, inout_to_send, wr, wi)
                 /\ fd_dialog' = fd_send_dialog(rot_to_send, inout_to_send, wr, wi)
                 /\ fd_write_errors' = fd_send_errors(rot_to_send, inout_to_send, wr, wi)
                 /\ fd_total_rotation_steps' =
                        fd_new_total(fd_total_rotation_steps, rot_to_send, rot)
                 /\ fd_total_inout_steps' =
                        fd_new_total(fd_total_inout_steps, inout_to_send, inout)
                 /\ fd_total_label' =
                        fd_update_totals_display(fd_total_rotation_steps',
                                                 fd_total_inout_steps')
                 /\ fd_last_move_steps' = <<-rot, -inout>>
                 /\ fd_start_point_mm' = fd_end_point_mm
                 /\ fd_end_point_mm' = None
                 /\ fd_point_selection_mode' = "end"

\* an undo that leaves the selection mode as it was
fd_mode_after_undo_kept == fd_point_selection_mode

\* line 296: after an undo the next click sets the start point
fd_mode_after_undo == "start"

\* lines 258-298
fd_undo_last_move(wr, wi) ==
    /\ fd_call' = "undo_last_move"
    /\ LET rev_rot == fd_last_move_steps[1]
           rev_inout == fd_last_move_steps[2]
           rot_to_send == -rev_rot
           inout_to_send == -rev_inout
       IN
       IF rev_rot = 0 /\ rev_inout = 0
       THEN /\ fd_dialog' = "Undo"
            /\ fd_sent' = <<>>
            /\ fd_write_errors' = 0
            /\ UNCHANGED <<fd_start_point_mm, fd_end_point_mm, fd_point_selection_mode,
                           fd_last_move_steps, fd_total_rotation_steps,
                           fd_total_inout_steps, fd_result_label, fd_moves,
                   fd_total_label>>
       ELSE /\ fd_within_bound(rev_rot, rev_inout)
            /\ fd_moves' = fd_counted(rev_rot, rev_inout)
            /\ fd_sent' = fd_send_both(rot_to_send, inout_to_send, wr, wi)
            /\ fd_dialog' = fd_send_dialog(rot_to_send, inout_to_send, wr, wi)
            /\ fd_write_errors' = fd_send_errors(rot_to_send, inout_to_send, wr, wi)
            /\ fd_total_rotation_steps' =
                   fd_new_total(fd_total_rotation_steps, rot_to_send, rev_rot)
            /\ fd_total_inout_steps' =
                   fd_new_total(fd_total_inout_steps, inout_to_send, rev_inout)
            /\ fd_total_label' =
                        fd_update_totals_display(fd_total_rotation_steps',
                                                 fd_total_inout_steps')
            /\ fd_last_move_steps' = <<0, 0>>
            /\ fd_result_label' =
                   Label("Last move successfully undone.", 0, 0, 0, 0, 0, 0)
            /\ fd_start_point_mm' = None
            /\ fd_end_point_mm' = None
            /\ fd_point_selection_mode' = fd_mode_after_undo

\* lines 308-329
fd_reset_graph_visuals_and_state ==
    /\ fd_call' = "reset_graph_visuals_and_state"
    /\ fd_dialog' = ""
    /\ fd_sent' = <<>>
    /\ fd_write_errors' = 0
    /\ fd_start_point_mm' = None
    /\ fd_end_point_mm' = None
    /\ fd_last_move_steps' = <<0, 0>>
    /\ fd_total_rotation_steps' = 0
    /\ fd_total_inout_steps' = 0
    /\ fd_total_label' = fd_update_totals_display(0, 0)
    /\ fd_point_selection_mode' = "start"
    /\ fd_result_label' =
           Label("Graph and totals reset. Define new points.", 0, 0, 0, 0, 0, 0)
    /\ fd_moves' = 0

\* lines 20-26, 402 and 406: the module's globals and labels when the GUI starts
fd_Init ==
    /\ fd_start_point_mm = None
    /\ fd_end_point_mm = None
    /\ fd_point_selection_mode = "start"
    /\ fd_last_move_steps = <<0, 0>>
    /\ fd_total_rotation_steps = 0
    /\ fd_total_inout_steps = 0
    /\ fd_result_label =
           Label("Define points and press 'Execute Move'", 0, 0, 0, 0, 0, 0)
    /\ fd_call = "create_main_gui"
    /\ fd_dialog = ""
    /\ fd_sent = <<>>
    /\ fd_moves = 0
    /\ fd_arduino_is_open \in BOOLEAN
    /\ fd_write_errors = 0
    /\ fd_total_label = fd_update_totals_display(0, 0)
    /\ fd_pending = <<>>
    /\ fd_stack = <<>>

\* lines 443-445: the GUI is created once the port has been opened
fd_connected == fd_arduino_is_open = TRUE

\* line 26: arduino is None until a port has been opened; the handlers then
\* take the branch of lines 192-193
fd_not_connected == fd_arduino_is_open = FALSE

\* this program is the one running; the others do not move, and no handler
\* opens or closes the port
fd_process ==
    /\ program = "fd"
    /\ UNCHANGED <<program, fd_arduino_is_open, sl_vars, lr_vars, mm_vars, pm_vars,
                   pv_vars, ec_vars>>

\* a handler that is taken as one step: nothing is queued and no other
\* handler is waiting to return
fd_running == fd_process /\ UNCHANGED <<fd_pending, fd_stack>>

\* the user's actions on the window
fd_Next ==
    \/ fd_running /\ \E clicked \in fd_Points : fd_on_plot_click(TRUE, clicked)
    \/ fd_running /\ fd_on_plot_click(FALSE, None)
    \/ fd_running /\ \E start \in fd_EntryPoints, end \in fd_EntryPoints :
              fd_draw_line_from_entries(TRUE, start, end)
    \/ fd_running /\ fd_draw_line_from_entries(FALSE, None, None)
    \/ fd_running /\ \E wr \in WriteOutcomes, wi \in WriteOutcomes : fd_execute_move(wr, wi)
    \/ fd_running /\ \E wr \in WriteOutcomes, wi \in WriteOutcomes : fd_undo_last_move(wr, wi)
    \/ fd_running /\ fd_reset_graph_visuals_and_state

----------------------------------------------------------------------------
(* Final-Demo-Files/Point_to_Point_Motion.py, handler by handler and step by
   step: the Tk event loop of line 419 takes the user's events from its queue
   one at a time, and execute_move and undo_last_move are followed through
   their two delays.  The events keep arriving while a handler runs. *)

\* the buttons of lines 397-400 and the click on the plot (line 416)
fd_Events == {"click", "draw_line", "execute_move", "undo_last_move", "reset"}

\* the points clicked and typed here: 30 mm at 0 degrees and 80.5 mm at -90
\* degrees
fd_LoopPoints == { <<60, 0, FALSE>>, <<0, -161, FALSE>> }

\* the handler-visible globals and widgets
fd_globals == <<fd_start_point_mm, fd_end_point_mm, fd_point_selection_mode,
                fd_last_move_steps, fd_total_rotation_steps, fd_total_inout_steps,
                fd_result_label, fd_call, fd_dialog, fd_sent, fd_moves,
                fd_write_errors, fd_total_label>>

\* the locals of a handler that has not returned: rot and inout are its
\* logical steps (lines 220-226, 267), written the lines it has written
fd_frame(handler, pc, rot, inout, written) ==
    [handler |-> handler, pc |-> pc, rot |-> rot, inout |-> inout, written |-> written]

fd_top == Head(fd_stack)
fd_set_top(f) == <<f>> \o Tail(fd_stack)

\* an event loop that also takes events while a handler sleeps
fd_loop_may_dispatch_while_sleeping ==
    \/ fd_stack = <<>>
    \/ Len(fd_stack) = 1 /\ Head(fd_stack).pc \in {"sleep_1", "sleep_2"}

\* line 419: mainloop() calls the next handler when the one before it has
\* returned; time.sleep (lines 235, 244, 276, 285) does not return to the loop
fd_loop_may_dispatch == fd_stack = <<>>

\* the window system queues what the user does, whatever the program is doing
fd_user_event(e) ==
    /\ Len(fd_pending) < MaxPending
    /\ fd_pending' = Append(fd_pending, e)
    /\ UNCHANGED <<fd_globals, fd_stack>>

\* the loop takes the event at the head of the queue
fd_loop_takes(e) ==
    /\ fd_loop_may_dispatch
    /\ fd_pending # <<>>
    /\ Head(fd_pending) = e
    /\ fd_pending' = Tail(fd_pending)

\* line 416: a click on the plot, lines 104-148
fd_loop_on_plot_click ==
    /\ fd_loop_takes("click")
    /\ \E clicked \in fd_LoopPoints : fd_on_plot_click(TRUE, clicked)
    /\ UNCHANGED fd_stack

\* line 397: the Draw Line button, lines 151-172
fd_loop_draw_line_from_entries ==
    /\ fd_loop_takes("draw_line")
    /\ \E start \in fd_LoopPoints, end \in fd_LoopPoints :
           fd_draw_line_from_entries(TRUE, start, end)
    /\ UNCHANGED fd_stack

\* line 400: the Reset All button, lines 308-329
fd_loop_reset ==
    /\ fd_loop_takes("reset")
    /\ fd_reset_graph_visuals_and_state
    /\ UNCHANGED fd_stack

\* lines 205-215: execute_move returns before its first delay
fd_execute_move_returns_early ==
    \/ fd_start_point_mm = None
    \/ fd_end_point_mm = None
    \/ ~fd_move(fd_start_point_mm, fd_end_point_mm).in_workspace

\* line 398: the Execute Move button, lines 195-235: up to the first delay
fd_loop_execute_move ==
    /\ fd_loop_takes("execute_move")
    /\ IF fd_execute_move_returns_early
       THEN fd_execute_move("ok", "ok") /\ UNCHANGED fd_stack
       ELSE LET m == fd_move(fd_start_point_mm, fd_end_point_mm)
                rot == m.logical_rotation_steps
                inout == m.logical_inout_steps_compensated
            IN
            /\ fd_within_bound(rot, inout)
            /\ fd_moves' = fd_counted(rot, inout)
            /\ fd_call' = "execute_move"
            /\ fd_result_label' =
                   Label("move", m.delta_theta_deg, rot, m.delta_r_mm,
                         m.logical_inout_steps_raw,
                         m.compensation_adjustment_steps, inout)
            /\ fd_dialog' = ""
            /\ fd_sent' = <<>>
            /\ fd_write_errors' = 0
            /\ fd_stack' = <<fd_frame("execute_move", "sleep_1", rot, inout, 0)>> \o fd_stack
            /\ UNCHANGED <<fd_start_point_mm, fd_end_point_mm, fd_point_selection_mode,
                           fd_last_move_steps, fd_total_rotation_steps,
                           fd_total_inout_steps, fd_total_label>>

\* line 399: the Undo Last Move button, lines 258-276: up to the first delay
fd_loop_undo_last_move ==
    /\ fd_loop_takes("undo_last_move")
    /\ LET rev_rot == fd_last_move_steps[1]
           rev_inout == fd_last_move_steps[2]
       IN
       IF rev_rot = 0 /\ rev_inout = 0
       THEN fd_undo_last_move("ok", "ok") /\ UNCHANGED fd_stack
       ELSE /\ fd_within_bound(rev_rot, rev_inout)
            /\ fd_moves' = fd_counted(rev_rot, rev_inout)
            /\ fd_call' = "undo_last_move"
            /\ fd_dialog' = ""
            /\ fd_sent' = <<>>
            /\ fd_write_errors' = 0
            /\ fd_stack' =
                   <<fd_frame("undo_last_move", "sleep_1", rev_rot, rev_inout, 0)>>
                   \o fd_stack
            /\ UNCHANGED <<fd_start_point_mm, fd_end_point_mm, fd_point_selection_mode,
                           fd_last_move_steps, fd_total_rotation_steps,
                           fd_total_inout_steps, fd_result_label, fd_total_label>>

\* lines 237-238 and 278-279: the first delay is over and the rotation line is
\* sent.  A write that raises opens the messagebox of lines 188-193 and the
\* handler waits in it; otherwise line 239 or 280 advances the total
fd_loop_send_rotation(w) ==
    /\ fd_stack # <<>>
    /\ fd_top.pc = "sleep_1"
    /\ LET f == fd_top
           to_send == fd_final_steps_to_send(f.rot)
           line == fd_send_arduino_command("r", to_send, w)
           shown == fd_send_dialog(to_send, 0, w, "ok")
       IN
       IF to_send = 0
       THEN /\ fd_stack' = fd_set_top([f EXCEPT !.pc = "sent_r"])
            /\ UNCHANGED <<fd_globals, fd_pending>>
       ELSE /\ fd_sent' = fd_sent \o line
            /\ fd_write_errors' = fd_write_errors + fd_send_errors(to_send, 0, w, "ok")
            /\ IF shown # ""
               THEN /\ fd_dialog' = shown
                    /\ fd_stack' = fd_set_top([f EXCEPT !.pc = "dialog_r"])
                    /\ UNCHANGED fd_total_rotation_steps
               ELSE /\ fd_total_rotation_steps' =
                           fd_new_total(fd_total_rotation_steps, to_send, f.rot)
                    /\ fd_stack' = fd_set_top([f EXCEPT !.pc = "sent_r",
                                                        !.written = @ + Len(line)])
                    /\ UNCHANGED fd_dialog
            /\ UNCHANGED <<fd_start_point_mm, fd_end_point_mm, fd_point_selection_mode,
                           fd_last_move_steps, fd_total_inout_steps, fd_result_label,
                           fd_call, fd_moves, fd_total_label, fd_pending>>

\* lines 240-241 and 281-282: the in/out line, in the same way
fd_loop_send_inout(w) ==
    /\ fd_stack # <<>>
    /\ fd_top.pc = "sent_r"
    /\ LET f == fd_top
           to_send == fd_final_steps_to_send(f.inout)
           line == fd_send_arduino_command("i", to_send, w)
           shown == fd_send_dialog(0, to_send, "ok", w)
       IN
       IF to_send = 0
       THEN /\ fd_stack' = fd_set_top([f EXCEPT !.pc = "sleep_2"])
            /\ UNCHANGED <<fd_globals, fd_pending>>
       ELSE /\ fd_sent' = fd_sent \o line
            /\ fd_write_errors' = fd_write_errors + fd_send_errors(0, to_send, "ok", w)
            /\ IF shown # ""
               THEN /\ fd_dialog' = shown
                    /\ fd_stack' = fd_set_top([f EXCEPT !.pc = "dialog_i"])
                    /\ UNCHANGED fd_total_inout_steps
               ELSE /\ fd_total_inout_steps' =
                           fd_new_total(fd_total_inout_steps, to_send, f.inout)
                    /\ fd_stack' = fd_set_top([f EXCEPT !.pc = "sleep_2",
                                                        !.written = @ + Len(line)])
                    /\ UNCHANGED fd_dialog
            /\ UNCHANGED <<fd_start_point_mm, fd_end_point_mm, fd_point_selection_mode,
                           fd_last_move_steps, fd_total_rotation_steps, fd_result_label,
                           fd_call, fd_moves, fd_total_label, fd_pending>>

\* lines 189-193: the messagebox is modal: while it is open the window system
\* gives the user's events to it, and no handler of the main window is called
fd_loop_dialog_takes_event ==
    /\ fd_stack # <<>>
    /\ fd_top.pc \in {"dialog_r", "dialog_i"}
    /\ fd_pending # <<>>
    /\ fd_pending' = Tail(fd_pending)
    /\ UNCHANGED <<fd_globals, fd_stack>>

\* the messagebox is closed, send_arduino_command returns, and line 239, 242,
\* 280 or 283 advances the total
fd_loop_dialog_closed ==
    /\ fd_stack # <<>>
    /\ fd_top.pc \in {"dialog_r", "dialog_i"}
    /\ LET f == fd_top IN
       IF f.pc = "dialog_r"
       THEN /\ fd_total_rotation_steps' =
                   fd_new_total(fd_total_rotation_steps, fd_final_steps_to_send(f.rot),
                                f.rot)
            /\ fd_stack' = fd_set_top([f EXCEPT !.pc = "sent_r"])
            /\ UNCHANGED fd_total_inout_steps
       ELSE /\ fd_total_inout_steps' =
                   fd_new_total(fd_total_inout_steps, fd_final_steps_to_send(f.inout),
                                f.inout)
            /\ fd_stack' = fd_set_top([f EXCEPT !.pc = "sleep_2"])
            /\ UNCHANGED fd_total_rotation_steps
    /\ UNCHANGED <<fd_start_point_mm, fd_end_point_mm, fd_point_selection_mode,
                   fd_last_move_steps, fd_result_label, fd_call, fd_dialog, fd_sent,
                   fd_moves, fd_write_errors, fd_total_label, fd_pending>>

\* lines 244-256 and 285-298: the second delay is over; the totals are read
\* into the display, the globals are set, and the handler returns
fd_loop_settled ==
    /\ fd_stack # <<>>
    /\ fd_top.pc = "sleep_2"
    /\ fd_total_label' =
           fd_update_totals_display(fd_total_rotation_steps, fd_total_inout_steps)
    /\ IF fd_top.handler = "execute_move"
       THEN /\ fd_last_move_steps' = <<-fd_top.rot, -fd_top.inout>>
            /\ fd_start_point_mm' = fd_end_point_mm
            /\ fd_end_point_mm' = None
            /\ fd_point_selection_mode' = "end"
            /\ UNCHANGED fd_result_label
       ELSE /\ fd_last_move_steps' = <<0, 0>>
            /\ fd_result_label' =
                   Label("Last move successfully undone.", 0, 0, 0, 0, 0, 0)
            /\ fd_start_point_mm' = None
            /\ fd_end_point_mm' = None
            /\ fd_point_selection_mode' = fd_mode_after_undo
    /\ fd_stack' = Tail(fd_stack)
    /\ UNCHANGED <<fd_total_rotation_steps, fd_total_inout_steps, fd_call, fd_dialog,
                   fd_sent, fd_moves, fd_write_errors, fd_pending>>

\* the steps of the event loop and of the handlers it has called
fd_loop_Next ==
    \/ fd_process /\ \E e \in fd_Events : fd_user_event(e)
    \/ fd_process /\ fd_loop_on_plot_click
    \/ fd_process /\ fd_loop_draw_line_from_entries
    \/ fd_process /\ fd_loop_reset
    \/ fd_process /\ fd_loop_execute_move
    \/ fd_process /\ fd_loop_undo_last_move
    \/ fd_process /\ \E w \in WriteOutcomes : fd_loop_send_rotation(w)
    \/ fd_process /\ \E w \in WriteOutcomes : fd_loop_send_inout(w)
    \/ fd_process /\ fd_loop_dialog_takes_event
    \/ fd_process /\ fd_loop_dialog_closed
    \/ fd_process /\ fd_loop_settled

----------------------------------------------------------------------------
(* Final-Demo-Files/Lin_Rot_Movement.py *)

lr_INOUT_STEPS_PER_MM == 33
\* 0.0679 degrees per step, in ten-thousandths
lr_ROTATION_DEG_PER_STEP == 679
\* 0.3167 in/out steps per rotation step, in ten-thousandths
lr_COMPENSATION_RATIO == 3167

\* values the user drags the sliders to: 0, 90, 180 and 270 degrees (tenths
\* of a degree), 75, 184.98 and 185 mm (hundredths of a millimetre)
lr_ThetaValues == {0, 900, 1800, 2700}
lr_InOutValues == {7500, 18498, 18500}

\* line 50: the row inserted into an empty table; its id is the first rowid
lr_default_row == [id |-> 1, theta |-> 0, in_out |-> 18500]

\* lines 36-52: the table is created if it is missing, and the default row is
\* inserted if the table holds no row
lr_initialize_database(table) ==
    IF Cardinality(table) = 0 THEN table \cup {lr_default_row} ELSE table

\* lines 54-60
lr_get_current_position(table) ==
    LET row == CHOOSE r \in table : r.id = 1 IN <<row.theta, row.in_out>>

\* lines 62-68
lr_update_position(table, new_theta, new_in_out) ==
    { IF r.id = 1 THEN [r EXCEPT !.theta = new_theta, !.in_out = new_in_out] ELSE r :
      r \in table }

\* line 93: no wrap
lr_delta_theta(target_theta, current_theta) == target_theta - current_theta

\* rotation steps that are rounded instead of truncated
lr_steps_theta_rounded(delta_theta) ==
    PyRound(delta_theta * 1000, lr_ROTATION_DEG_PER_STEP)

\* line 100: int(delta_theta / ROTATION_DEG_PER_STEP), delta_theta in tenths
lr_steps_theta(delta_theta) == PyInt(delta_theta * 1000, lr_ROTATION_DEG_PER_STEP)

\* line 101: int((delta_in_out * INOUT_STEPS_PER_MM) - (COMPENSATION_RATIO *
\* steps_theta)), delta_in_out in hundredths
lr_steps_in_out(delta_in_out, steps_theta) ==
    PyInt(delta_in_out * lr_INOUT_STEPS_PER_MM * 100 - lr_COMPENSATION_RATIO * steps_theta,
          10000)

\* the two sends without the tests for 0 of lines 103 and 105
lr_send_both_unguarded(steps_theta, steps_in_out, wr, wi) ==
    [sent |-> (IF wr = "ok" THEN << <<"r", steps_theta>> >> ELSE <<>>)
              \o (IF wr = "ok" /\ wi = "ok" THEN << <<"i", steps_in_out>> >> ELSE <<>>),
     completed |-> wr = "ok" /\ wi = "ok"]

\* lines 71-80 as used at lines 103-106: arduino is set whenever the GUI
\* exists (line 175); a write that raises ends move_motors there
lr_send_both(steps_theta, steps_in_out, wr, wi) ==
    LET r_raised == steps_theta # 0 /\ wr = "raise"
        i_raised == ~r_raised /\ steps_in_out # 0 /\ wi = "raise"
    IN  [sent |-> (IF steps_theta # 0 /\ ~r_raised THEN << <<"r", steps_theta>> >>
                   ELSE <<>>)
                  \o (IF steps_in_out # 0 /\ ~r_raised /\ ~i_raised
                      THEN << <<"i", steps_in_out>> >> ELSE <<>>),
         completed |-> ~r_raised /\ ~i_raised]

\* the history before any move_motors
lr_no_move == [moved |-> FALSE, from |-> <<0, 0>>, sent |-> <<>>]

\* line 146: the user drags the rotation slider
lr_drag_theta_slider(v) ==
    /\ lr_theta_slider' = v
    /\ lr_call' = "theta_slider"
    /\ lr_sent' = <<>>
    /\ lr_exception' = ""
    /\ UNCHANGED <<lr_positions, lr_inout_slider, lr_steps, lr_last>>

\* line 151: the user drags the in/out slider
lr_drag_inout_slider(v) ==
    /\ lr_inout_slider' = v
    /\ lr_call' = "inout_slider"
    /\ lr_sent' = <<>>
    /\ lr_exception' = ""
    /\ UNCHANGED <<lr_positions, lr_theta_slider, lr_steps, lr_last>>

\* lines 83-113
lr_move_motors(wr, wi) ==
    LET target_theta == lr_theta_slider
        target_in_out == lr_inout_slider
        current == lr_get_current_position(lr_positions)
        delta_theta == lr_delta_theta(target_theta, current[1])
        delta_in_out == target_in_out - current[2]
        steps_theta == lr_steps_theta(delta_theta)
        steps_in_out == lr_steps_in_out(delta_in_out, steps_theta)
        s == lr_send_both(steps_theta, steps_in_out, wr, wi)
    IN  /\ lr_call' = "move_motors"
        /\ lr_steps' = <<steps_theta, steps_in_out>>
        /\ lr_last' = [moved |-> TRUE, from |-> current, sent |-> s.sent]
        /\ lr_sent' = s.sent
        /\ lr_exception' = IF s.completed THEN "" ELSE "SerialException"
        /\ lr_positions' =
               IF s.completed
               THEN lr_update_position(lr_positions, target_theta, target_in_out)
               ELSE lr_positions
        /\ UNCHANGED <<lr_theta_slider, lr_inout_slider>>

\* lines 116-124
lr_reset_positions ==
    /\ lr_call' = "reset_positions"
    /\ lr_sent' = <<>>
    /\ lr_exception' = ""
    /\ lr_positions' = lr_update_position(lr_positions, 0, 18500)
    /\ lr_theta_slider' = 0
    /\ lr_inout_slider' = 18500
    /\ lr_last' = lr_no_move
    /\ UNCHANGED lr_steps

\* lines 168-185: the window is closed and the script is started again on the
\* same motor_positions.db; the sliders are created at their from_ values
lr_restart ==
    /\ lr_call' = "create_gui"
    /\ lr_sent' = <<>>
    /\ lr_exception' = ""
    /\ lr_steps' = <<0, 0>>
    /\ lr_last' = lr_no_move
    /\ lr_positions' = lr_initialize_database(lr_positions)
    /\ lr_theta_slider' = 0
    /\ lr_inout_slider' = 7500

\* lines 36-52 on a new store, and the sliders as created (lines 146, 151):
\* each starts at its from_ value
lr_Init ==
    /\ lr_positions = lr_initialize_database({})
    /\ lr_theta_slider = 0
    /\ lr_inout_slider = 7500
    /\ lr_steps = <<0, 0>>
    /\ lr_last = lr_no_move
    /\ lr_exception = ""
    /\ lr_call = "create_gui"
    /\ lr_sent = <<>>

\* this program is the one running; the others do not move
lr_running ==
    /\ program = "lr"
    /\ UNCHANGED <<program, sl_vars, fd_vars, mm_vars, pm_vars, pv_vars, ec_vars>>

\* the user's actions on the window
lr_Next ==
    \/ lr_running /\ \E v \in lr_ThetaValues : lr_drag_theta_slider(v)
    \/ lr_running /\ \E v \in lr_InOutValues : lr_drag_inout_slider(v)
    \/ lr_running /\ \E wr \in WriteOutcomes, wi \in WriteOutcomes : lr_move_motors(wr, wi)
    \/ lr_running /\ lr_reset_positions
    \/ lr_running /\ lr_restart

----------------------------------------------------------------------------
(* Steps-Calibration/Motor_Movement.py *)

\* the texts typed into an entry: "", "0", "5", "-3", "x" and "1.5"
mm_Texts == { <<>>, <<"0">>, <<"5">>, <<"-", "3">>, <<"x">>, <<"1", ".", "5">> }

mm_digits == <<"0", "1", "2", "3", "4", "5", "6", "7", "8", "9">>
mm_is_digit(c) == \E i \in 1..10 : mm_digits[i] = c
mm_digit_value(c) == (CHOOSE i \in 1..10 : mm_digits[i] = c) - 1

\* str.strip of the blanks, as int() does before it parses
RECURSIVE mm_lstrip(_)
mm_lstrip(text) ==
    IF Len(text) > 0 /\ text[1] = " " THEN mm_lstrip(Tail(text)) ELSE text
RECURSIVE mm_rstrip(_)
mm_rstrip(text) ==
    IF Len(text) > 0 /\ text[Len(text)] = " "
    THEN mm_rstrip(SubSeq(text, 1, Len(text) - 1)) ELSE text

\* the value of a sequence of decimal digits after the value acc
RECURSIVE mm_decimal(_, _)
mm_decimal(digits, acc) ==
    IF digits = <<>> THEN acc
    ELSE mm_decimal(Tail(digits), acc * 10 + mm_digit_value(digits[1]))

\* lines 49 and 58, int(text) of a str: blanks stripped, an optional sign, one
\* or more decimal digits; anything else raises ValueError (ok is FALSE)
mm_int(text) ==
    LET t == mm_rstrip(mm_lstrip(text))
        signed == Len(t) > 0 /\ t[1] \in {"+", "-"}
        body == IF signed THEN Tail(t) ELSE t
        ok == Len(body) > 0 /\ \A i \in 1..Len(body) : mm_is_digit(body[i])
        magnitude == IF ok THEN mm_decimal(body, 0) ELSE 0
    IN  [ok |-> ok,
         value |-> IF signed /\ t[1] = "-" THEN -magnitude ELSE magnitude]

\* lines 46-53 and 55-62, one axis of move_both: a text that is not empty is
\* written as it is (send_command, lines 28-37; arduino is set whenever the GUI
\* exists, line 149), then int(text) is added to the counter; ValueError is
\* caught and reported, an exception of the write is not caught
mm_axis(axis, text, cumulative, w) ==
    IF text = <<>>
    THEN [sent |-> <<>>, cumulative |-> cumulative, moved |-> FALSE,
          dialogs |-> <<>>, raised |-> FALSE]
    ELSE IF w = "raise"
    THEN [sent |-> <<>>, cumulative |-> cumulative, moved |-> FALSE,
          dialogs |-> <<>>, raised |-> TRUE]
    ELSE IF ~mm_int(text).ok
    THEN [sent |-> << <<axis, text>> >>, cumulative |-> cumulative, moved |-> FALSE,
          dialogs |-> <<"Input Error">>, raised |-> FALSE]
    ELSE [sent |-> << <<axis, text>> >>, cumulative |-> cumulative + mm_int(text).value,
          moved |-> TRUE, dialogs |-> <<>>, raised |-> FALSE]

\* the user types into the rotation entry
mm_type_theta(text) ==
    /\ mm_theta_entry' = text
    /\ mm_call' = "theta_entry"
    /\ mm_sent' = <<>>
    /\ mm_dialogs' = <<>>
    /\ mm_exception' = ""
    /\ UNCHANGED <<mm_radius_entry, mm_theta_cumulative, mm_radius_cumulative, mm_moves>>

\* the user types into the radius entry
mm_type_radius(text) ==
    /\ mm_radius_entry' = text
    /\ mm_call' = "radius_entry"
    /\ mm_sent' = <<>>
    /\ mm_dialogs' = <<>>
    /\ mm_exception' = ""
    /\ UNCHANGED <<mm_theta_entry, mm_theta_cumulative, mm_radius_cumulative, mm_moves>>

\* lines 41-69
mm_move_both(wr, wi) ==
    LET t == mm_axis("r", mm_theta_entry, mm_theta_cumulative, wr)
        r == IF t.raised
             THEN [sent |-> <<>>, cumulative |-> mm_radius_cumulative, moved |-> FALSE,
                   dialogs |-> <<>>, raised |-> FALSE]
             ELSE mm_axis("i", mm_radius_entry, mm_radius_cumulative, wi)
        raised == t.raised \/ r.raised
        moved == t.moved \/ r.moved
    IN  /\ moved => mm_moves < MaxMoves
        /\ mm_moves' = IF moved THEN mm_moves + 1 ELSE mm_moves
        /\ mm_call' = "move_both"
        /\ mm_sent' = t.sent \o r.sent
        /\ mm_theta_cumulative' = t.cumulative
        /\ mm_radius_cumulative' = r.cumulative
        /\ mm_exception' = IF raised THEN "SerialException" ELSE ""
        /\ mm_dialogs' = t.dialogs \o r.dialogs
                          \o (IF raised \/ moved THEN <<>> ELSE <<"Input Error">>)
        /\ mm_theta_entry' = IF raised THEN mm_theta_entry ELSE <<>>
        /\ mm_radius_entry' = IF raised THEN mm_radius_entry ELSE <<>>

\* lines 71-75
mm_reset_counters ==
    /\ mm_call' = "reset_counters"
    /\ mm_theta_cumulative' = 0
    /\ mm_radius_cumulative' = 0
    /\ mm_moves' = 0
    /\ mm_sent' = <<>>
    /\ mm_dialogs' = <<>>
    /\ mm_exception' = ""
    /\ UNCHANGED <<mm_theta_entry, mm_radius_entry>>

\* lines 110-122: the entries are empty and the counters are 0
mm_Init ==
    /\ mm_theta_entry = <<>>
    /\ mm_radius_entry = <<>>
    /\ mm_theta_cumulative = 0
    /\ mm_radius_cumulative = 0
    /\ mm_dialogs = <<>>
    /\ mm_exception = ""
    /\ mm_call = "create_gui"
    /\ mm_sent = <<>>
    /\ mm_moves = 0

\* this program is the one running; the others do not move
mm_running ==
    /\ program = "mm"
    /\ UNCHANGED <<program, sl_vars, fd_vars, lr_vars, pm_vars, pv_vars, ec_vars>>

\* the user's actions on the window
mm_Next ==
    \/ mm_running /\ \E text \in mm_Texts : mm_type_theta(text)
    \/ mm_running /\ \E text \in mm_Texts : mm_type_radius(text)
    \/ mm_running /\ \E wr \in WriteOutcomes, wi \in WriteOutcomes : mm_move_both(wr, wi)
    \/ mm_running /\ mm_reset_counters

----------------------------------------------------------------------------
(* Pattern-To-Path-To-Motion/Path_To_Motion.py.  The pattern of lines 39-52
   and its conversion of lines 92-112 are floating-point trigonometry; a
   pattern is held here as the list of step pairs its conversion yields. *)

\* the outcomes of connect_serial's prompt and of serial.Serial (lines 271-277)
pm_ConnectOutcomes == {"connected", "cancelled", "failed"}

\* the step lists of the patterns plotted here: (theta steps, r steps) per
\* section, with a repeated pair and a pair of zeros
pm_StepLists == { << <<1, 9>>, <<1, 9>>, <<1, -4>> >>, << <<0, 0>>, <<-1, 3>> >> }

\* lines 27-66: the pattern of the sliders is sampled into pattern_coords
pm_plot_pattern(steps) ==
    /\ pm_call' = "plot_pattern"
    /\ pm_pattern_coords' = steps
    /\ pm_dialog' = ""
    /\ pm_exception' = ""
    /\ UNCHANGED <<pm_file, pm_ser, pm_sim_window, pm_sim_steps, pm_sim_index, pm_sent,
                   pm_presses>>

\* lines 79-114: one line per section, "<theta_steps> <r_steps>"
pm_convert_and_export_steps ==
    /\ pm_call' = "convert_and_export_steps"
    /\ pm_exception' = ""
    /\ IF pm_pattern_coords = None
       THEN /\ pm_dialog' = "No Pattern"
            /\ UNCHANGED pm_file
       ELSE /\ pm_dialog' = "Export Complete"
            /\ pm_file' = pm_pattern_coords
    /\ UNCHANGED <<pm_pattern_coords, pm_ser, pm_sim_window, pm_sim_steps, pm_sim_index,
                   pm_sent, pm_presses>>

\* lines 263-277: ser after connect_serial; a port that is already open is kept
pm_connect_serial(outcome) == pm_ser \/ outcome = "connected"

\* lines 117-157: the file is read whole, in order, and the index starts at 0;
\* the window is opened whether or not the port was
pm_begin_pathing(outcome) ==
    /\ pm_call' = "begin_pathing"
    /\ pm_exception' = ""
    /\ IF pm_file = None
       THEN /\ pm_dialog' = "No Steps"
            /\ UNCHANGED <<pm_ser, pm_sim_window, pm_sim_steps, pm_sim_index, pm_sent,
                           pm_presses>>
       ELSE /\ pm_ser' = pm_connect_serial(outcome)
            /\ pm_dialog' = IF pm_ser THEN ""
                            ELSE IF outcome = "connected" THEN "Connected"
                            ELSE IF outcome = "failed" THEN "Serial Error" ELSE ""
            /\ pm_sim_steps' = pm_file
            /\ pm_sim_index' = 0
            /\ pm_sim_window' = TRUE
            /\ pm_sent' = <<>>
            /\ pm_presses' = 0
    /\ UNCHANGED <<pm_pattern_coords, pm_file>>

\* lines 195-203: the line written, if any; without a port nothing is written
pm_send_move_command(theta_steps, r_steps, w) ==
    IF pm_ser /\ w = "ok" THEN << <<"MOVE", theta_steps, r_steps>> >> ELSE <<>>

\* lines 159-193: the step button.  The write is not guarded: when it raises
\* the handler ends before line 193
pm_simulate_step(w) ==
    /\ pm_sim_window
    /\ pm_presses < MaxPresses
    /\ pm_presses' = pm_presses + 1
    /\ pm_call' = "simulate_step"
    /\ IF pm_sim_index >= Len(pm_sim_steps)
       THEN /\ pm_dialog' = "Complete"
            /\ pm_exception' = ""
            /\ UNCHANGED <<pm_sim_index, pm_sent>>
       ELSE LET step == pm_sim_steps[pm_sim_index + 1] IN
            /\ pm_dialog' = ""
            /\ pm_sent' = pm_sent \o pm_send_move_command(step[1], step[2], w)
            /\ IF pm_ser /\ w = "raise"
               THEN /\ pm_exception' = "SerialException"
                    /\ UNCHANGED pm_sim_index
               ELSE /\ pm_exception' = ""
                    /\ pm_sim_index' = pm_sim_index + 1
    /\ UNCHANGED <<pm_pattern_coords, pm_file, pm_ser, pm_sim_window, pm_sim_steps>>

\* lines 257-260
pm_on_closing_sim ==
    /\ pm_sim_window
    /\ pm_call' = "on_closing_sim"
    /\ pm_sim_window' = FALSE
    /\ pm_dialog' = ""
    /\ pm_exception' = ""
    /\ UNCHANGED <<pm_pattern_coords, pm_file, pm_ser, pm_sim_steps, pm_sim_index,
                   pm_sent, pm_presses>>

\* lines 22-24 and 290-296: the globals when the GUI starts, with no
\* exported_steps.txt in the directory yet
pm_Init ==
    /\ pm_pattern_coords = None
    /\ pm_file = None
    /\ pm_ser = FALSE
    /\ pm_sim_window = FALSE
    /\ pm_sim_steps = <<>>
    /\ pm_sim_index = 0
    /\ pm_sent = <<>>
    /\ pm_presses = 0
    /\ pm_dialog = ""
    /\ pm_exception = ""
    /\ pm_call = "create_gui"

\* this program is the one running; the others do not move
pm_running ==
    /\ program = "pm"
    /\ UNCHANGED <<program, sl_vars, fd_vars, lr_vars, mm_vars, pv_vars, ec_vars>>

\* the user's actions on the two windows
pm_Next ==
    \/ pm_running /\ \E steps \in pm_StepLists : pm_plot_pattern(steps)
    \/ pm_running /\ pm_convert_and_export_steps
    \/ pm_running /\ \E outcome \in pm_ConnectOutcomes : pm_begin_pathing(outcome)
    \/ pm_running /\ \E w \in WriteOutcomes : pm_simulate_step(w)
    \/ pm_running /\ pm_on_closing_sim

----------------------------------------------------------------------------
(* Pattern-to-Path/Path_Visualisation.py.  The coordinates of the path are
   floating-point numbers that no handler compares; a path is held as its
   length.  Every tk.Tk() of begin_pathing is a window of its own with its own
   timers, while the module's globals, sim_root among them, are shared. *)

\* what drawing on the canvas of a destroyed window does
pv_DrawOutcomes == {"ok", "raise"}

pv_window(open, timers) == [open |-> open, timers |-> timers]

\* the windows that are on the screen
pv_open_windows == { i \in DOMAIN pv_windows : pv_windows[i].open }

\* sim_root is the window of the last begin_pathing (line 150)
pv_sim_root_open(ws) == ws # <<>> /\ ws[Len(ws)].open

\* the callbacks scheduled with after() that have not run
pv_pending(ws) == LET RECURSIVE sum(_)
                      sum(k) == IF k = 0 THEN 0 ELSE ws[k].timers + sum(k - 1)
                  IN sum(Len(ws))

\* the bound of the model: a segment is drawn while fewer than MaxRedraws
\* segments more than the path has points have been drawn
pv_within_bound == Len(pv_path_line_segments) < pv_path_len + MaxRedraws

\* an end test that lets the index pass the last point
pv_at_end_off_by_one == pv_current_index >= pv_path_len

\* lines 82 and 120
pv_at_end == pv_current_index >= pv_path_len - 1

\* a step that schedules nothing
pv_after_dropped(ws) == ws

\* line 137: sim_root.after(100, preview_path_step)
pv_after(ws) == [ws EXCEPT ![Len(ws)].timers = @ + 1]

\* lines 22-62: pattern_coords is the sampled pattern
pv_plot_pattern ==
    /\ pv_call' = "plot_pattern"
    /\ pv_pattern_coords' = PatternPoints
    /\ pv_dialog' = ""
    /\ pv_exception' = ""
    /\ UNCHANGED <<pv_windows, pv_path_len, pv_current_index, pv_preview_running,
                   pv_path_line_segments>>

\* lines 140-189: a new window becomes sim_root, and the path, the index and
\* preview_running start afresh; the windows opened before stay as they are
pv_begin_pathing ==
    /\ pv_call' = "begin_pathing"
    /\ pv_exception' = ""
    /\ IF pv_pattern_coords = 0
       THEN /\ pv_dialog' = "No Pattern"
            /\ UNCHANGED <<pv_windows, pv_path_len, pv_current_index,
                           pv_preview_running, pv_path_line_segments>>
       ELSE /\ Cardinality(pv_open_windows) < MaxWindows
            /\ pv_dialog' = ""
            /\ pv_windows' =
                   SelectSeq(pv_windows, LAMBDA w : w.open) \o <<pv_window(TRUE, 0)>>
            /\ pv_path_len' = pv_pattern_coords + 3
            /\ pv_path_line_segments' = <<>>
            /\ pv_current_index' = 0
            /\ pv_preview_running' = FALSE
    /\ UNCHANGED pv_pattern_coords

\* lines 74-100: the step button of an open window.  Line 97 draws on the canvas
\* of sim_root; if that window was destroyed the draw may raise before line 100
pv_step_through_path(d) ==
    /\ pv_open_windows # {}
    /\ pv_call' = "step_through_path"
    /\ IF pv_at_end
       THEN /\ pv_dialog' = "Path Complete"
            /\ pv_exception' = ""
            /\ UNCHANGED <<pv_current_index, pv_path_line_segments>>
       ELSE /\ pv_within_bound
            /\ pv_dialog' = ""
            /\ pv_path_line_segments' = Append(pv_path_line_segments, pv_current_index)
            /\ IF ~pv_sim_root_open(pv_windows) /\ d = "raise"
               THEN /\ pv_exception' = "TclError"
                    /\ UNCHANGED pv_current_index
               ELSE /\ pv_exception' = ""
                    /\ pv_current_index' = pv_current_index + 1
    /\ UNCHANGED <<pv_pattern_coords, pv_windows, pv_path_len, pv_preview_running>>

\* lines 114-137, with ws the windows and running the flag when it is called.
\* Lines 134 and 137 use sim_root: if that window was destroyed the draw may
\* raise before line 136, and after() raises
pv_preview_path_step(ws, running, d) ==
    IF pv_at_end
    THEN /\ pv_preview_running' = FALSE
         /\ pv_dialog' = "Preview Complete"
         /\ pv_exception' = ""
         /\ pv_windows' = ws
         /\ UNCHANGED <<pv_current_index, pv_path_line_segments>>
    ELSE /\ pv_within_bound
         /\ pv_preview_running' = running
         /\ pv_dialog' = ""
         /\ pv_path_line_segments' = Append(pv_path_line_segments, pv_current_index)
         /\ IF pv_sim_root_open(ws)
            THEN /\ pv_current_index' = pv_current_index + 1
                 /\ pv_windows' = pv_after(ws)
                 /\ pv_exception' = ""
            ELSE /\ pv_current_index' =
                        IF d = "raise" THEN pv_current_index ELSE pv_current_index + 1
                 /\ pv_windows' = ws
                 /\ pv_exception' = "TclError"

\* lines 103-111: the preview button of an open window
pv_start_preview_path(d) ==
    /\ pv_open_windows # {}
    /\ pv_call' = "start_preview_path"
    /\ IF pv_preview_running
       THEN /\ pv_dialog' = ""
            /\ pv_exception' = ""
            /\ UNCHANGED <<pv_windows, pv_current_index, pv_preview_running,
                           pv_path_line_segments>>
       ELSE pv_preview_path_step(pv_windows, TRUE, d)
    /\ UNCHANGED <<pv_pattern_coords, pv_path_len>>

\* a callback scheduled at line 137 on window i comes due
pv_timer_fires(i, d) ==
    /\ i \in pv_open_windows
    /\ pv_windows[i].timers > 0
    /\ pv_call' = "preview_path_step"
    /\ pv_preview_path_step([pv_windows EXCEPT ![i].timers = @ - 1],
                            pv_preview_running, d)
    /\ UNCHANGED <<pv_pattern_coords, pv_path_len>>

\* lines 244-250: the close button of an open window destroys sim_root, and
\* with it the callbacks scheduled on it; destroying it again raises
pv_on_closing_sim ==
    /\ pv_open_windows # {}
    /\ pv_call' = "on_closing_sim"
    /\ pv_dialog' = ""
    /\ IF pv_sim_root_open(pv_windows)
       THEN /\ pv_windows' = [pv_windows EXCEPT ![Len(pv_windows)] = pv_window(FALSE, 0)]
            /\ pv_exception' = ""
       ELSE /\ pv_exception' = "TclError"
            /\ UNCHANGED pv_windows
    /\ UNCHANGED <<pv_pattern_coords, pv_path_len, pv_current_index, pv_preview_running,
                   pv_path_line_segments>>

\* line 19 and lines 192-234: the globals when the GUI starts
pv_Init ==
    /\ pv_pattern_coords = 0
    /\ pv_windows = <<>>
    /\ pv_path_len = 0
    /\ pv_current_index = 0
    /\ pv_preview_running = FALSE
    /\ pv_path_line_segments = <<>>
    /\ pv_dialog = ""
    /\ pv_exception = ""
    /\ pv_call = "create_gui"

\* this program is the one running; the others do not move
pv_running ==
    /\ program = "pv"
    /\ UNCHANGED <<program, sl_vars, fd_vars, lr_vars, mm_vars, pm_vars, ec_vars>>

\* the callbacks of the timers
pv_timers == pv_running /\ \E i \in DOMAIN pv_windows, d \in pv_DrawOutcomes :
                               pv_timer_fires(i, d)

\* the user's actions on the windows, and the timers
pv_Next ==
    \/ pv_running /\ pv_plot_pattern
    \/ pv_running /\ pv_begin_pathing
    \/ pv_running /\ \E d \in pv_DrawOutcomes : pv_step_through_path(d)
    \/ pv_running /\ \E d \in pv_DrawOutcomes : pv_start_preview_path(d)
    \/ pv_timers
    \/ pv_running /\ pv_on_closing_sim

----------------------------------------------------------------------------
(* Steps-Calibration/Error_Checker.py *)

\* the texts typed into an entry: "", "0", "0.0", "5", "2.5", "-4" and "x"
ec_Texts == { <<>>, <<"0">>, <<"0", ".", "0">>, <<"5">>, <<"2", ".", "5">>,
              <<"-", "4">>, <<"x">> }

\* the buttons of lines 80-94: the axis and the steps each sends
ec_Moves == { <<"i", 1000>>, <<"i", -1000>>, <<"r", 2000>>, <<"r", -2000>> }

\* the text without its decimal points
ec_digits_of(text) == SelectSeq(text, LAMBDA c : c # ".")

\* ten to the number of characters after the decimal point
RECURSIVE ec_scale(_)
ec_scale(text) ==
    IF text = <<>> \/ \A i \in 1..Len(text) : text[i] # "." THEN 1
    ELSE IF text[Len(text)] = "." THEN 1
    ELSE 10 * ec_scale(SubSeq(text, 1, Len(text) - 1))

\* lines 64-65, float(text) of a str: blanks stripped, an optional sign, decimal
\* digits with at most one point among them and at least one digit; anything
\* else among these texts raises ValueError (ok is FALSE).  The value is
\* num / den
ec_float(text) ==
    LET t == mm_rstrip(mm_lstrip(text))
        signed == Len(t) > 0 /\ t[1] \in {"+", "-"}
        body == IF signed THEN Tail(t) ELSE t
        digits == ec_digits_of(body)
        ok == /\ Len(digits) > 0
              /\ Len(body) - Len(digits) <= 1
              /\ \A i \in 1..Len(digits) : mm_is_digit(digits[i])
        magnitude == IF ok THEN mm_decimal(digits, 0) ELSE 0
    IN  [ok |-> ok,
         num |-> IF signed /\ t[1] = "-" THEN -magnitude ELSE magnitude,
         den |-> IF ok THEN ec_scale(body) ELSE 1]

\* line 72 and the format of line 74: 0.5 * (mm_rotation / mm_inout) to four
\* decimals, in ten-thousandths; mm_inout is not 0
ec_compensation_ratio(mm_rotation, mm_inout) ==
    LET p == 10000 * mm_rotation.num * mm_inout.den
        q == 2 * mm_rotation.den * mm_inout.num
    IN  IF q > 0 THEN PyRound(p, q) ELSE PyRound(-p, -q)

\* the user types into the in-out entry
ec_type_inout(text) ==
    /\ ec_inout_mm_entry' = text
    /\ ec_call' = "inout_mm_entry"
    /\ ec_dialog' = ""
    /\ ec_exception' = ""
    /\ ec_sent' = <<>>
    /\ UNCHANGED <<ec_rotation_mm_entry, ec_linear_label, ec_compensation_label>>

\* the user types into the rotation entry
ec_type_rotation(text) ==
    /\ ec_rotation_mm_entry' = text
    /\ ec_call' = "rotation_mm_entry"
    /\ ec_dialog' = ""
    /\ ec_exception' = ""
    /\ ec_sent' = <<>>
    /\ UNCHANGED <<ec_inout_mm_entry, ec_linear_label, ec_compensation_label>>

\* lines 54-77.  With two numbers and an in-out value that is not 0, line 73
\* formats linear_label itself, a tk.Label, with ".4f": that raises TypeError,
\* which the except clause of line 76 does not catch, so neither label is set
ec_calculate_compensation ==
    /\ ec_call' = "calculate_compensation"
    /\ ec_sent' = <<>>
    /\ LET mm_inout == ec_float(ec_inout_mm_entry)
           mm_rotation == ec_float(ec_rotation_mm_entry)
       IN  IF ~mm_inout.ok \/ ~mm_rotation.ok
           THEN /\ ec_dialog' = "Input Error"
                /\ ec_exception' = ""
           ELSE IF mm_inout.num = 0
           THEN /\ ec_dialog' = "Input Error"
                /\ ec_exception' = ""
           ELSE /\ ec_dialog' = ""
                /\ ec_exception' = "TypeError"
    /\ UNCHANGED <<ec_inout_mm_entry, ec_rotation_mm_entry, ec_linear_label,
                   ec_compensation_label>>

\* lines 38-51 and 80-94: arduino is set whenever the GUI exists (line 160); an
\* exception of the write is not caught
ec_send_command(axis, steps, w) ==
    /\ ec_call' = "send_command"
    /\ ec_dialog' = ""
    /\ ec_sent' = IF w = "ok" THEN << <<axis, steps>> >> ELSE <<>>
    /\ ec_exception' = IF w = "ok" THEN "" ELSE "SerialException"
    /\ UNCHANGED <<ec_inout_mm_entry, ec_rotation_mm_entry, ec_linear_label,
                   ec_compensation_label>>

\* lines 117-145: the entries are empty and the labels carry no number
ec_Init ==
    /\ ec_inout_mm_entry = <<>>
    /\ ec_rotation_mm_entry = <<>>
    /\ ec_linear_label = <<>>
    /\ ec_compensation_label = <<>>
    /\ ec_dialog = ""
    /\ ec_exception = ""
    /\ ec_call = "create_gui"
    /\ ec_sent = <<>>

\* this program is the one running; the others do not move
ec_running ==
    /\ program = "ec"
    /\ UNCHANGED <<program, sl_vars, fd_vars, lr_vars, mm_vars, pm_vars, pv_vars>>

\* the user's actions on the window
ec_Next ==
    \/ ec_running /\ \E text \in ec_Texts : ec_type_inout(text)
    \/ ec_running /\ \E text \in ec_Texts : ec_type_rotation(text)
    \/ ec_running /\ ec_calculate_compensation
    \/ ec_running /\ \E mv \in ec_Moves, w \in WriteOutcomes : ec_send_command(mv[1], mv[2], w)

----------------------------------------------------------------------------

\* the scripts of the repository
Programs == {"sl", "fd", "lr", "mm", "pm", "pv", "ec"}

\* one of the scripts is started
Init ==
    /\ program \in Programs
    /\ sl_Init /\ fd_Init /\ fd_connected /\ lr_Init /\ mm_Init /\ pm_Init /\ pv_Init
    /\ ec_Init

Next == sl_Next \/ fd_Next \/ lr_Next \/ mm_Next \/ pm_Next \/ pv_Next \/ ec_Next

\* any one of the programs
Spec == Init /\ [][Next]_vars

\* the point-to-point tool with the step limit
InitSL == program = "sl" /\ Init
SpecSL == InitSL /\ [][sl_Next]_vars

\* the final-demo point-to-point tool
InitFD == program = "fd" /\ Init
SpecFD == InitFD /\ [][fd_Next]_vars

\* the handlers of the final-demo tool while no port is open
InitFDNotConnected ==
    /\ program = "fd"
    /\ sl_Init /\ fd_Init /\ fd_not_connected /\ lr_Init /\ mm_Init /\ pm_Init /\ pv_Init
    /\ ec_Init
SpecFDNotConnected == InitFDNotConnected /\ [][fd_Next]_vars

\* the final demo followed through its event loop
SpecFDEventLoop == InitFD /\ [][fd_loop_Next]_vars

\* the absolute-target tool
InitLR == program = "lr" /\ Init
SpecLR == InitLR /\ [][lr_Next]_vars

\* the manual step tool
InitMM == program = "mm" /\ Init
SpecMM == InitMM /\ [][mm_Next]_vars

\* the pattern-stepping tool
InitPM == program = "pm" /\ Init
SpecPM == InitPM /\ [][pm_Next]_vars

\* the path visualiser
InitPV == program = "pv" /\ Init
SpecPV == InitPV /\ [][pv_Next]_vars

\* the calibration tool
InitEC == program = "ec" /\ Init
SpecEC == InitEC /\ [][ec_Next]_vars

\* the path visualiser with its timers: a callback scheduled with after() on a
\* window that stays open is called by the event loop
SpecPVFair == SpecPV /\ WF_vars(pv_timers)

----------------------------------------------------------------------------
(* Properties *)

\* the serial lines a handler wrote on one axis
LinesOn(sent, axis) == { k \in 1..Len(sent) : sent[k][1] = axis }

\* n is p/q rounded to the nearest integer, the tie going to the even one
IsNearestEven(n, p, q) ==
    /\ Abs(2 * (n * q - p)) <= q
    /\ Abs(2 * (n * q - p)) = q => n % 2 = 0

\* n is p/q truncated toward zero
IsTruncated(n, p, q) ==
    IF p >= 0 THEN n >= 0 /\ n * q <= p /\ p < (n + 1) * q
    ELSE n <= 0 /\ n * q >= p /\ p > (n - 1) * q

\* C1: in the step-limited tool the absolute value of total_inout_steps never
\* exceeds MAX_INOUT_STEPS, in any state that draw_line, execute_move,
\* undo_move and reset_graph reach, undo_move included
C1_TotalInOutWithinLimit == Abs(sl_total_inout_steps) <= sl_MAX_INOUT_STEPS

\* C1 witness: undo_move has sent an in/out line back, after a move that left
\* the total away from 0
C1_UndoMovedInOut ==
    /\ sl_call = "undo_move"
    /\ LinesOn(sl_sent, "i") # {}
    /\ sl_result_label.text = "Last move undone."

\* C2: in the step-limited tool, an execute_move whose compensated in/out
\* steps would take the running total beyond MAX_INOUT_STEPS in absolute value
\* writes no line and leaves both totals and last_move as they were
C2_LimitRejectionChangesNothing ==
    [][ ( /\ sl_call' = "execute_move"
          /\ sl_start_point # None
          /\ sl_end_point # None
          /\ Abs(sl_total_inout_steps
                 + sl_move(sl_start_point, sl_end_point).compensated_inout_steps)
             > sl_MAX_INOUT_STEPS )
        => ( /\ sl_sent' = <<>>
             /\ sl_dialog' = "Movement Limit Exceeded"
             /\ UNCHANGED <<sl_total_rotation_steps, sl_total_inout_steps,
                            sl_last_move>> ) ]_vars

\* C2 witness: a move was rejected for the running total although the move
\* alone is within the limit, and an earlier accepted move is still the one
\* that undo_move would reverse
C2_RejectedOnRunningTotal ==
    /\ sl_call = "execute_move"
    /\ sl_dialog = "Movement Limit Exceeded"
    /\ sl_last_move # <<0, 0>>
    /\ Abs(sl_move(sl_start_point, sl_end_point).compensated_inout_steps)
       <= sl_MAX_INOUT_STEPS

\* both points are set and the radius of one of them is outside the closed
\* annulus [INNER_LIMIT_RADIUS_MM, WORKSPACE_RADIUS_MM] (radii in half mm)
fd_points_set == fd_start_point_mm # None /\ fd_end_point_mm # None
fd_radius_inside(p) ==
    /\ hypot(p[1], p[2]) >= 2 * fd_INNER_LIMIT_RADIUS_MM
    /\ hypot(p[1], p[2]) <= 2 * fd_WORKSPACE_RADIUS_MM

\* C3 as stated: the final-demo tool keeps the absolute value of
\* total_inout_steps within 4280
C3_TotalInOutWithinLimit == Abs(fd_total_inout_steps) <= fd_MAX_INOUT_STEPS

\* C3 amended: the final-demo execute_move applies no step limit: a move whose
\* two points lie in the workspace is carried out and added to
\* total_inout_steps also when the resulting total exceeds 4280 in absolute
\* value
C3_NoStepLimitApplied ==
    [][ ( /\ fd_call' = "execute_move"
          /\ fd_points_set
          /\ fd_radius_inside(fd_start_point_mm)
          /\ fd_radius_inside(fd_end_point_mm) )
        => LET inout == fd_move(fd_start_point_mm, fd_end_point_mm)
                            .logical_inout_steps_compensated
           IN  /\ fd_total_inout_steps' = fd_total_inout_steps + inout
               /\ fd_last_move_steps'[2] = -inout
               /\ fd_dialog' \in {"", "Serial Error"} ]_vars

\* C3 witness: execute_move has taken the total beyond 4280
C3_TotalBeyondLimit ==
    /\ fd_call = "execute_move"
    /\ Abs(fd_total_inout_steps) > fd_MAX_INOUT_STEPS
    /\ LinesOn(fd_sent, "i") # {}

\* C4: in the final-demo tool, execute_move with a start or end point whose
\* radius is below INNER_LIMIT_RADIUS_MM or above WORKSPACE_RADIUS_MM writes
\* no line and leaves the totals, last_move_steps, both points and the
\* selection mode as they were; with both radii inside the closed annulus,
\* the two circles included, the move is not rejected for the workspace
C4_WorkspaceRejectionChangesNothing ==
    [][ (fd_call' = "execute_move" /\ fd_points_set)
        => IF fd_radius_inside(fd_start_point_mm) /\ fd_radius_inside(fd_end_point_mm)
           THEN /\ fd_dialog' # "Workspace Violation"
                /\ fd_start_point_mm' = fd_end_point_mm
           ELSE /\ fd_dialog' = "Workspace Violation"
                /\ fd_sent' = <<>>
                /\ UNCHANGED <<fd_total_rotation_steps, fd_total_inout_steps,
                               fd_last_move_steps, fd_start_point_mm,
                               fd_end_point_mm, fd_point_selection_mode>> ]_vars

\* C4 witness: a move was rejected for the workspace after an accepted move
\* that started on the inner circle and ended on the outer one
C4_RejectedAfterBoundaryMove ==
    /\ fd_call = "execute_move"
    /\ fd_dialog = "Workspace Violation"
    /\ fd_last_move_steps # <<0, 0>>
    /\ fd_result_label.text = "move"
    /\ fd_result_label.dr = 2 * (fd_WORKSPACE_RADIUS_MM - fd_INNER_LIMIT_RADIUS_MM)

\* the radius of p (half mm) lies between the two circles of the plot of the
\* step-limited tool
sl_points_set == sl_start_point # None /\ sl_end_point # None
sl_radius_inside(p) ==
    /\ hypot(p[1], p[2]) >= 2 * sl_limit_circle_radius
    /\ hypot(p[1], p[2]) <= 2 * sl_boundary_circle_radius

\* C5 as stated: in the step-limited tool execute_move writes no command when
\* the radius of the start or of the end point lies outside the [30, 130] mm
\* annulus drawn on its plot
C5_NoCommandOutsideWorkspace ==
    ( /\ sl_call = "execute_move"
      /\ sl_points_set
      /\ ~(sl_radius_inside(sl_start_point) /\ sl_radius_inside(sl_end_point)) )
    => sl_sent = <<>>

\* C6 as stated: in the final-demo execute_move the wrapped delta_theta_deg
\* lies in the half-open interval (-180, 180] and is congruent to theta2 -
\* theta1 modulo 360
C6_WrappedIntoHalfOpenInterval ==
    [][ ( /\ fd_call' = "execute_move"
          /\ fd_points_set
          /\ fd_radius_inside(fd_start_point_mm)
          /\ fd_radius_inside(fd_end_point_mm) )
        => LET theta1 == fd_to_polar(fd_start_point_mm).theta
               theta2 == fd_to_polar(fd_end_point_mm).theta
               d == fd_result_label'.dtheta
           IN  /\ -180 < d /\ d <= 180
               /\ (d - (theta2 - theta1)) % 360 = 0 ]_vars

\* C6 amended: the wrapped delta_theta_deg lies in the closed interval
\* [-180, 180] (a difference of exactly -180 is left as it is) and is
\* congruent to theta2 - theta1 modulo 360; 170 to -170 degrees gives 20
C6_WrappedIntoClosedInterval ==
    [][ ( /\ fd_call' = "execute_move"
          /\ fd_points_set
          /\ fd_radius_inside(fd_start_point_mm)
          /\ fd_radius_inside(fd_end_point_mm) )
        => LET theta1 == fd_to_polar(fd_start_point_mm).theta
               theta2 == fd_to_polar(fd_end_point_mm).theta
               d == fd_result_label'.dtheta
           IN  /\ -180 <= d /\ d <= 180
               /\ (d - (theta2 - theta1)) % 360 = 0
               /\ fd_delta_theta_deg(170, -170) = 20 ]_vars

\* C6 witness: a move from 180 degrees to -90 degrees, a difference of -270,
\* was carried out as a rotation of 90 degrees
C6_WrapHappened ==
    /\ fd_call = "execute_move"
    /\ fd_result_label.text = "move"
    /\ fd_result_label.dtheta = 90
    /\ fd_start_point_mm # None
    /\ fd_to_polar(fd_start_point_mm).theta = -90
    /\ fd_total_rotation_steps > 0

\* C7 as stated: in both point-to-point tools the rotation line written by
\* execute_move carries at most round(180 / ROTATION_DEG_PER_STEP) steps in
\* absolute value
C7_ShorterRotationalPath ==
    /\ sl_call = "execute_move" =>
           \A k \in LinesOn(sl_sent, "r") :
               Abs(sl_sent[k][2]) <= PyRound(180 * 10000, sl_ROTATION_DEG_PER_STEP)
    /\ fd_call = "execute_move" =>
           \A k \in LinesOn(fd_sent, "r") :
               Abs(fd_sent[k][2]) <= PyRound(180 * 10000, fd_ROTATION_DEG_PER_STEP)

\* the three rounded quantities of a label agree with the rounding round_to
\* (rot_q is ROTATION_DEG_PER_STEP of the tool in ten-thousandths)
C8_half_away(lab, rot_q, per_mm, ratio) ==
    /\ lab.rot = RoundHalfAway(lab.dtheta * 10000, rot_q)
    /\ lab.raw = RoundHalfAway(lab.dr * per_mm, 2)
    /\ lab.comp = RoundHalfAway(ratio * lab.rot, 10000)

C8_half_even(lab, rot_q, per_mm, ratio) ==
    /\ IsNearestEven(lab.rot, lab.dtheta * 10000, rot_q)
    /\ IsNearestEven(lab.raw, lab.dr * per_mm, 2)
    /\ IsNearestEven(lab.comp, ratio * lab.rot, 10000)

\* C8 as stated: in both point-to-point tools the rotation steps, the raw
\* in/out steps and the compensation of a move are each the quotient rounded
\* to the nearest integer, a tie going away from zero
C8_TiesAwayFromZero ==
    /\ sl_result_label.text = "move" =>
           C8_half_away(sl_result_label, sl_ROTATION_DEG_PER_STEP,
                        sl_INOUT_STEPS_PER_MM, sl_COMPENSATION_RATIO)
    /\ fd_result_label.text = "move" =>
           C8_half_away(fd_result_label, fd_ROTATION_DEG_PER_STEP,
                        fd_INOUT_STEPS_PER_MM, fd_COMPENSATION_RATIO)

\* C8 amended: each of the three is the quotient rounded to the nearest
\* integer, a tie going to the even integer (1666.5 gives 1666, -148.5 gives
\* -148); it is neither truncated nor rounded away from zero
C8_TiesToEven ==
    /\ sl_result_label.text = "move" =>
           C8_half_even(sl_result_label, sl_ROTATION_DEG_PER_STEP,
                        sl_INOUT_STEPS_PER_MM, sl_COMPENSATION_RATIO)
    /\ fd_result_label.text = "move" =>
           C8_half_even(fd_result_label, fd_ROTATION_DEG_PER_STEP,
                        fd_INOUT_STEPS_PER_MM, fd_COMPENSATION_RATIO)

\* C8 witness: a move of the final-demo tool whose radius changed by an odd
\* number of half millimetres, so that delta_r * 33 fell exactly between two
\* integers, and whose other quotients were not integers
C8_TieHappened ==
    /\ fd_call = "execute_move"
    /\ fd_result_label.text = "move"
    /\ (fd_result_label.dr * fd_INOUT_STEPS_PER_MM) % 2 = 1
    /\ (fd_result_label.dtheta * 10000) % fd_ROTATION_DEG_PER_STEP # 0
    /\ (fd_COMPENSATION_RATIO * fd_result_label.rot) % 10000 # 0

\* C9, the step-limited tool: when execute_move has written the in/out line,
\* its value and the amount added to total_inout_steps are round(delta_r * 33)
\* - round(0.3167 * rotation_steps), rotation_steps being the rounded count
\* that the rotation line carries
C9_sl ==
    ( /\ sl_call' = "execute_move"
      /\ sl_points_set
      /\ LinesOn(sl_sent', "i") # {} )
    => LET lab == sl_result_label'
           dr == sl_to_polar(sl_end_point).r - sl_to_polar(sl_start_point).r
       IN  /\ IsNearestEven(lab.raw, dr * sl_INOUT_STEPS_PER_MM, 2)
           /\ IsNearestEven(lab.comp, sl_COMPENSATION_RATIO * lab.rot, 10000)
           /\ lab.final = lab.raw - lab.comp
           /\ \A k \in LinesOn(sl_sent', "r") : sl_sent'[k][2] = lab.rot
           /\ LinesOn(sl_sent', "r") = {} => lab.rot = 0
           /\ \A k \in LinesOn(sl_sent', "i") : sl_sent'[k][2] = lab.final
           /\ sl_total_inout_steps' = sl_total_inout_steps + lab.final

\* C9, the final-demo tool: the same for every move that passes the workspace
\* check; the lines carry the negated values
C9_fd ==
    ( /\ fd_call' = "execute_move"
      /\ fd_points_set
      /\ fd_radius_inside(fd_start_point_mm)
      /\ fd_radius_inside(fd_end_point_mm) )
    => LET lab == fd_result_label'
           dr == fd_to_polar(fd_end_point_mm).r - fd_to_polar(fd_start_point_mm).r
       IN  /\ IsNearestEven(lab.raw, dr * fd_INOUT_STEPS_PER_MM, 2)
           /\ IsNearestEven(lab.comp, fd_COMPENSATION_RATIO * lab.rot, 10000)
           /\ lab.final = lab.raw - lab.comp
           /\ \A k \in LinesOn(fd_sent', "r") : fd_sent'[k][2] = -lab.rot
           /\ \A k \in LinesOn(fd_sent', "i") : fd_sent'[k][2] = -lab.final
           /\ fd_total_inout_steps' = fd_total_inout_steps + lab.final

\* C9: in both point-to-point tools the in/out step count of a move is
\* round(delta_r * INOUT_STEPS_PER_MM) - round(COMPENSATION_RATIO *
\* rotation_steps): the compensation is computed from the rounded rotation
\* step count, rounded on its own, and subtracted whatever its sign
C9_CompensationSubtracted == [][C9_sl /\ C9_fd]_vars

\* C9 witness: the final-demo tool has carried out a move with a negative
\* rotation step count, so a negative compensation, and written both lines
C9_NegativeCompensation ==
    /\ fd_call = "execute_move"
    /\ fd_result_label.text = "move"
    /\ fd_result_label.rot < 0
    /\ fd_result_label.comp < 0
    /\ LinesOn(fd_sent, "r") # {}
    /\ LinesOn(fd_sent, "i") # {}

\* C10: in the absolute-target tool the rotation line carries (target_theta -
\* current_theta) / 0.0679 truncated toward zero, with no wrap of the angle,
\* and the in/out line carries delta_in_out * 33 - 0.3167 * steps_theta
\* truncated toward zero once; from (0, 185) to (90, 75) the lines are
\* r 1325 and i -4049
C10_AbsoluteTargetTruncates ==
    [][ lr_call' = "move_motors"
        => LET current == lr_get_current_position(lr_positions)
               delta_theta == lr_theta_slider - current[1]
               delta_in_out == lr_inout_slider - current[2]
               rl == LinesOn(lr_sent', "r")
               il == LinesOn(lr_sent', "i")
               steps_theta == IF rl = {} THEN 0 ELSE lr_sent'[CHOOSE k \in rl : TRUE][2]
           IN  /\ \A k \in rl :
                      IsTruncated(lr_sent'[k][2], delta_theta * 1000,
                                  lr_ROTATION_DEG_PER_STEP)
               /\ il # {} => IsTruncated(steps_theta, delta_theta * 1000,
                                         lr_ROTATION_DEG_PER_STEP)
               /\ \A k \in il :
                      IsTruncated(lr_sent'[k][2],
                                  delta_in_out * lr_INOUT_STEPS_PER_MM * 100
                                      - lr_COMPENSATION_RATIO * steps_theta,
                                  10000)
               /\ ( /\ current = <<0, 18500>>
                    /\ lr_theta_slider = 900
                    /\ lr_inout_slider = 7500
                    /\ Len(lr_sent') = 2 )
                  => lr_sent' = << <<"r", 1325>>, <<"i", -4049>> >> ]_vars

\* C10 witness: the move from (0, 185) to (90, 75) has written its two lines
C10_EndToEndExample ==
    /\ lr_call = "move_motors"
    /\ lr_sent = << <<"r", 1325>>, <<"i", -4049>> >>
    /\ lr_get_current_position(lr_positions) = <<900, 7500>>

\* C11: in move_motors, when the sliders equal the persisted position, both
\* step counts are 0, no line is written, no exception ends the handler and
\* the persisted position keeps its value
C11_ZeroDeltaIsNoOp ==
    [][ ( /\ lr_call' = "move_motors"
          /\ <<lr_theta_slider, lr_inout_slider>> = lr_get_current_position(lr_positions) )
        => /\ lr_steps' = <<0, 0>>
           /\ lr_sent' = <<>>
           /\ lr_exception' = ""
           /\ lr_positions' = lr_positions ]_vars

\* C11 witness: move_motors was pressed again after a move to (90, 75)
C11_ZeroDeltaMoveMade ==
    /\ lr_call = "move_motors"
    /\ lr_steps = <<0, 0>>
    /\ lr_sent = <<>>
    /\ lr_theta_slider = 900
    /\ lr_inout_slider = 7500
    /\ lr_get_current_position(lr_positions) = <<900, 7500>>

\* no line of the sequence sent carries the step value 0, and no axis has
\* more than one line
C12_lines_ok(sent) ==
    /\ \A k \in DOMAIN sent : sent[k][2] # 0
    /\ Cardinality(LinesOn(sent, "r")) <= 1
    /\ Cardinality(LinesOn(sent, "i")) <= 1

\* the three tools that compute their step counts write no line with the
\* value 0 and at most one line per axis
C12_computed_tools ==
    C12_lines_ok(sl_sent) /\ C12_lines_ok(fd_sent) /\ C12_lines_ok(lr_sent)

\* C12 as stated: in every tool that writes '<axis> <steps>' lines, a handler
\* writes no line whose step value is 0 and at most one line per axis (the
\* manual step tool writes the text of the entry: its step value is int(text))
C12_NoZeroLineOneLinePerAxis ==
    /\ C12_computed_tools
    /\ \A k \in DOMAIN mm_sent :
           mm_int(mm_sent[k][2]).ok => mm_int(mm_sent[k][2]).value # 0
    /\ Cardinality(LinesOn(mm_sent, "r")) <= 1
    /\ Cardinality(LinesOn(mm_sent, "i")) <= 1

\* the entry of an axis holds a text that int() refuses
mm_invalid(text) == text # <<>> /\ ~mm_int(text).ok

\* C19 as stated: in move_both a non-numeric entry of an axis writes no line
\* for that axis and leaves the cumulative counter of that axis unchanged
C19_InvalidInputRejected ==
    [][ mm_call' = "move_both"
        => /\ mm_invalid(mm_theta_entry)
              => /\ LinesOn(mm_sent', "r") = {}
                 /\ mm_theta_cumulative' = mm_theta_cumulative
           /\ mm_invalid(mm_radius_entry)
              => /\ LinesOn(mm_sent', "i") = {}
                 /\ mm_radius_cumulative' = mm_radius_cumulative ]_vars

\* C13, the step-limited tool: a second undo_move in succession writes
\* nothing, reports that there is nothing to undo and leaves the totals; after
\* any undo_move last_move is (0, 0)
C13_sl ==
    /\ sl_call' = "undo_move" => sl_last_move' = <<0, 0>>
    /\ (sl_call = "undo_move" /\ sl_call' = "undo_move")
       => /\ sl_sent' = <<>>
          /\ sl_dialog' = "Undo"
          /\ UNCHANGED <<sl_total_rotation_steps, sl_total_inout_steps>>

\* C13, the final-demo tool
C13_fd ==
    /\ fd_call' = "undo_last_move" => fd_last_move_steps' = <<0, 0>>
    /\ (fd_call = "undo_last_move" /\ fd_call' = "undo_last_move")
       => /\ fd_sent' = <<>>
          /\ fd_dialog' = "Undo"
          /\ UNCHANGED <<fd_total_rotation_steps, fd_total_inout_steps>>

\* C13 as stated: in both point-to-point tools undo is idempotent after the
\* first call, and the last-move record is (0, 0) after any undo
C13_UndoIdempotent == [][C13_sl /\ C13_fd]_vars

\* the final-demo half of C13 alone
C13_UndoIdempotentFinalDemo == [][C13_fd]_vars

\* the step value a sequence of lines carries on an axis (0 if it has no line)
ValueOn(sent, axis) ==
    IF LinesOn(sent, axis) = {} THEN 0
    ELSE sent[CHOOSE k \in LinesOn(sent, axis) : TRUE][2]

\* the lines with the negated values, on the same axes
Negated(sent) == [k \in DOMAIN sent |-> <<sent[k][1], -sent[k][2]>>]

\* C14, the step-limited tool.  An accepted execute_move whose writes all went
\* through adds the values it wrote to the totals; an undo_move that follows it
\* immediately, and whose writes go through, writes the negated values on the
\* same axes and takes the totals back
C14_sl ==
    /\ (sl_call' = "execute_move" /\ sl_dialog' = "" /\ sl_exception' = "")
       => /\ sl_total_rotation_steps' = sl_total_rotation_steps + ValueOn(sl_sent', "r")
          /\ sl_total_inout_steps' = sl_total_inout_steps + ValueOn(sl_sent', "i")
    /\ ( /\ sl_call = "execute_move" /\ sl_dialog = "" /\ sl_exception = ""
         /\ sl_call' = "undo_move" /\ sl_exception' = "" )
       => /\ sl_sent' = Negated(sl_sent)
          /\ sl_total_rotation_steps' = sl_total_rotation_steps - ValueOn(sl_sent, "r")
          /\ sl_total_inout_steps' = sl_total_inout_steps - ValueOn(sl_sent, "i")

\* C14, the final-demo tool (its lines carry the negated logical steps, so the
\* totals move by minus the values written)
C14_fd ==
    /\ (fd_call' = "execute_move" /\ fd_dialog' = "")
       => /\ fd_total_rotation_steps' = fd_total_rotation_steps - ValueOn(fd_sent', "r")
          /\ fd_total_inout_steps' = fd_total_inout_steps - ValueOn(fd_sent', "i")
    /\ ( /\ fd_call = "execute_move" /\ fd_dialog = ""
         /\ fd_call' = "undo_last_move" /\ fd_dialog' # "Serial Error" )
       => /\ fd_sent' = Negated(fd_sent)
          /\ fd_total_rotation_steps' = fd_total_rotation_steps + ValueOn(fd_sent, "r")
          /\ fd_total_inout_steps' = fd_total_inout_steps + ValueOn(fd_sent, "i")

C15_NothingWrittenWithoutConnection == ~fd_arduino_is_open => fd_sent = <<>>

\* the number of the two step values that are not 0
NonZero(a, b) == (IF a # 0 THEN 1 ELSE 0) + (IF b # 0 THEN 1 ELSE 0)

\* C16: in the final-demo tool an execute_move in which a serial write raises
\* is reported and goes on as with a successful write: every axis that is not
\* 0 is either written or reported (the other axis is still attempted), both
\* logical step counts are added to the totals, last_move_steps is recorded,
\* and start_point_mm becomes the end point
C16_WriteFailureDoesNotAbortMove ==
    [][ (fd_call' = "execute_move" /\ fd_dialog' = "Serial Error")
        => LET lab == fd_result_label'
           IN  /\ fd_write_errors' >= 1
               /\ Len(fd_sent') + fd_write_errors' = NonZero(lab.rot, lab.final)
               /\ \A k \in LinesOn(fd_sent', "r") : fd_sent'[k][2] = -lab.rot
               /\ \A k \in LinesOn(fd_sent', "i") : fd_sent'[k][2] = -lab.final
               /\ fd_total_rotation_steps' = fd_total_rotation_steps + lab.rot
               /\ fd_total_inout_steps' = fd_total_inout_steps + lab.final
               /\ fd_last_move_steps' = <<-lab.rot, -lab.final>>
               /\ fd_start_point_mm' = fd_end_point_mm
               /\ fd_start_point_mm' # None
               /\ fd_end_point_mm' = None
               /\ fd_point_selection_mode' = "end" ]_vars

\* C16 witness: the write of the rotation line raised, the in/out line was
\* still written, and both totals moved
C16_OtherAxisStillWritten ==
    /\ fd_call = "execute_move"
    /\ fd_dialog = "Serial Error"
    /\ fd_write_errors = 1
    /\ fd_result_label.rot # 0
    /\ LinesOn(fd_sent, "r") = {}
    /\ LinesOn(fd_sent, "i") # {}
    /\ fd_total_rotation_steps = fd_result_label.rot
    /\ fd_total_inout_steps = fd_result_label.final

\* C17 as stated: after a move_motors in which arduino.write raised, the
\* persisted (theta, in_out) equals the target of the sliders
C17_PositionFollowsTargetOnWriteFailure ==
    [][ (lr_call' = "move_motors" /\ lr_exception' = "SerialException")
        => lr_get_current_position(lr_positions') = <<lr_theta_slider, lr_inout_slider>>
      ]_vars

\* the persisted position after a move_motors that no exception ended is the
\* target of the sliders
C17_PositionFollowsTargetOtherwise ==
    [][ (lr_call' = "move_motors" /\ lr_exception' = "")
        => lr_get_current_position(lr_positions') = <<lr_theta_slider, lr_inout_slider>>
      ]_vars

\* the positions table holds exactly one row, the row with id 1 that
\* get_current_position reads
C18_single_row(table) ==
    Cardinality(table) = 1 /\ \A row \in table : row.id = 1

\* C18 as stated: the table always holds exactly one row, which
\* get_current_position reads; reset_positions makes it (0, 185), move_motors
\* makes it the target of the sliders, and nothing else (a restart included)
\* changes it
C18_PersistedPositionSingleRecord ==
    [][ /\ C18_single_row(lr_positions)
        /\ C18_single_row(lr_positions')
        /\ lr_call' = "reset_positions"
           => lr_get_current_position(lr_positions') = <<0, 18500>>
        /\ lr_call' = "move_motors"
           => lr_get_current_position(lr_positions') =
                  <<lr_theta_slider, lr_inout_slider>>
        /\ lr_call' \notin {"reset_positions", "move_motors"}
           => lr_positions' = lr_positions ]_vars

\* the part of C18 on the number of rows: one row, with id 1, in every state
C18_SingleRowAlways == C18_single_row(lr_positions)

----------------------------------------------------------------------------
(* C20 *)

\* the moves in flight: the handlers that have written a line and whose
\* second delay is not over
C20_in_flight == { i \in 1..Len(fd_stack) : fd_stack[i].written > 0 }

\* C20: at most one move is in flight at a time in the final demo: whatever
\* the user does while a move is processed, no line of a second move or undo
\* is written between the first write of a move and the end of its 2-second
\* delay, and the displayed totals are read only when that delay is over
C20_OneMoveInFlight ==
    [][ /\ Cardinality(C20_in_flight') <= 1
        /\ (fd_stack # <<>> /\ fd_total_label' # fd_total_label)
               => (fd_top.pc = "sleep_2" /\ fd_stack' = Tail(fd_stack)) ]_vars

\* a move has written its two lines and is in its second delay while the user
\* has asked for another move and for an undo
C20_MoveAskedDuringSettle ==
    /\ fd_stack # <<>>
    /\ fd_top.pc = "sleep_2"
    /\ fd_top.written = 2
    /\ fd_pending = <<"execute_move", "undo_last_move">>

----------------------------------------------------------------------------
(* C21 *)

\* the first n step pairs of the file as the lines that carry them
C21_lines(steps, n) == [i \in 1..n |-> <<"MOVE", steps[i][1], steps[i][2]>>]

C21_min(a, b) == IF a < b THEN a ELSE b

\* C21: in the pattern-stepping tool the MOVE lines written are a prefix of
\* the step pairs read from exported_steps.txt, in file order and each once:
\* after N presses of the step button exactly min(N, len(sim_steps)) lines have
\* been sent, and sim_index never exceeds len(sim_steps)
C21_SentIsPrefixOfSteps ==
    pm_sim_window =>
        /\ pm_sim_index <= Len(pm_sim_steps)
        /\ pm_sent = C21_lines(pm_sim_steps, C21_min(pm_presses, Len(pm_sim_steps)))

\* the part of C21 that holds: the index stays within the list, and with a
\* port open the lines written are the first sim_index pairs of the file
C21_IndexWithinSteps ==
    /\ pm_sim_index <= Len(pm_sim_steps)
    /\ pm_sim_window /\ pm_ser => pm_sent = C21_lines(pm_sim_steps, pm_sim_index)

----------------------------------------------------------------------------
(* C22 *)

\* the handler wrote on each axis the negation of what it added to the total
C22_written_negates_added ==
    /\ ValueOn(fd_sent', "r") = -(fd_total_rotation_steps' - fd_total_rotation_steps)
    /\ ValueOn(fd_sent', "i") = -(fd_total_inout_steps' - fd_total_inout_steps)

\* C22 as stated: in the final-demo tool with the port open, the sum of the
\* step values written on the rotation axis since the last reset equals
\* -total_rotation_steps and the sum written on the in/out axis equals
\* -total_inout_steps.  The sums and the totals are both 0 after a reset, so
\* this is that every execute_move and undo_last_move writes on each axis the
\* negation of what it adds to the total of that axis
C22_WrittenSumsNegateTotals ==
    [][ (fd_arduino_is_open /\ fd_call' \in {"execute_move", "undo_last_move"})
        => C22_written_negates_added ]_vars

\* the part of C22 that holds: the handlers in which no write raised
C22_WrittenSumsNegateTotalsWithoutFailure ==
    [][ (fd_arduino_is_open /\ fd_call' \in {"execute_move", "undo_last_move"}
         /\ fd_write_errors' = 0)
        => C22_written_negates_added ]_vars

----------------------------------------------------------------------------
(* C23 *)

\* C23 as stated: in the path visualiser at most one chain of scheduled
\* preview_path_step callbacks is pending at any time, whatever the sequence
\* of Begin Pathing, Preview Path (Auto), Execute Step by Step and window-close
\* actions
C23_AtMostOnePreviewChain == pv_pending(pv_windows) <= 1

\* the part of C23 that holds: while the first simulation window is the only
\* one that was opened, at most one callback is pending
C23_AtMostOneChainInFirstWindow == Len(pv_windows) <= 1 => pv_pending(pv_windows) <= 1

----------------------------------------------------------------------------
(* C25 *)

\* C25 as stated: once start_preview_path has set preview_running, and with
\* the timer callbacks scheduled fairly, a state in which preview_running is
\* False is eventually reached, under any interleaving of manual steps and
\* window-close actions
C25_PreviewEventuallyFinishes == pv_preview_running ~> ~pv_preview_running

\* C25, amended: once preview_running is set, and with the timer callbacks
\* scheduled fairly, either preview_running becomes False again or the
\* simulation window is closed, which cancels the pending callback and leaves
\* preview_running set until the next begin_pathing
C25_PreviewFinishesOrWindowCloses ==
    pv_preview_running ~> (~pv_preview_running \/ ~pv_sim_root_open(pv_windows))

\* a callback found the path at its end and finished the preview in the window
\* that is still open
C25_PreviewFinishedByCallback ==
    /\ pv_call = "preview_path_step"
    /\ pv_dialog = "Preview Complete"
    /\ ~pv_preview_running
    /\ pv_sim_root_open(pv_windows)
    /\ pv_current_index = pv_path_len - 1

----------------------------------------------------------------------------
(* C26 *)

\* the segments 0 .. n-1, each once and in order
C26_segments(n) == [k \in 1..n |-> k - 1]

\* C26: in the path visualiser, under any interleaving of step_through_path
\* presses and preview_path_step callbacks on a path, current_index stays
\* between 0 and len(path_x) - 1, so that path_x[current_index + 1] is read
\* within range, and the segments drawn on the path shown are the segments
\* before current_index, each drawn once
C26_IndexWithinPath ==
    pv_windows # <<>> =>
        /\ 0 <= pv_current_index
        /\ pv_current_index <= pv_path_len - 1
        /\ pv_sim_root_open(pv_windows)
               => pv_path_line_segments = C26_segments(pv_current_index)

\* a press of the step button took the index to the last point while a
\* callback of a running preview was pending
C26_ManualStepEndsPathDuringPreview ==
    /\ pv_call = "step_through_path"
    /\ pv_exception = ""
    /\ pv_preview_running
    /\ pv_sim_root_open(pv_windows)
    /\ pv_pending(pv_windows) >= 1
    /\ pv_current_index = pv_path_len - 1
    /\ Len(pv_path_line_segments) = pv_path_len - 1

----------------------------------------------------------------------------
(* C24 *)

\* the two entries hold numbers, the in-out one not 0
C24_valid ==
    /\ ec_float(ec_inout_mm_entry).ok
    /\ ec_float(ec_rotation_mm_entry).ok
    /\ ec_float(ec_inout_mm_entry).num # 0

\* C24 as stated: calculate_compensation with two numeric entries and an
\* in-out value that is not 0 shows 0.5 * (mm_moved_by_rotation /
\* mm_moved_by_inout) in the compensation label; with an in-out value of 0 or
\* an entry that is not a number it shows an input-error dialog and leaves both
\* result labels unchanged
C24_CompensationRatioDisplayed ==
    [][ ec_call' = "calculate_compensation"
        => IF C24_valid
           THEN ec_compensation_label' =
                    <<ec_compensation_ratio(ec_float(ec_rotation_mm_entry),
                                            ec_float(ec_inout_mm_entry))>>
           ELSE /\ ec_dialog' = "Input Error"
                /\ UNCHANGED <<ec_linear_label, ec_compensation_label>> ]_vars

\* the part of C24 that holds: an in-out value of 0 or an entry that is not a
\* number gives the dialog and leaves the labels unchanged
C24_InvalidEntriesRejected ==
    [][ (ec_call' = "calculate_compensation" /\ ~C24_valid)
        => /\ ec_dialog' = "Input Error"
           /\ UNCHANGED <<ec_linear_label, ec_compensation_label>> ]_vars

----------------------------------------------------------------------------
(* C27 *)

\* C27: in the final-demo tool, after any sequence of plot clicks,
\* draw_line_from_entries, execute_move, undo_last_move and reset calls,
\* end_point_mm is set only if start_point_mm is set, and point_selection_mode
\* is "end" only if start_point_mm is set; hence on_plot_click never shows
\* 'Please set the start point first'
C27_EndOnlyAfterStart ==
    /\ fd_end_point_mm # None => fd_start_point_mm # None
    /\ fd_point_selection_mode = "end" => fd_start_point_mm # None
    /\ fd_dialog # "Selection Order"

\* after a move and its undo, and a first click, a click in the mode "end" has
\* set the end point
C27_EndClickedAfterUndo ==
    /\ fd_call = "on_plot_click"
    /\ fd_result_label.text = "Last move successfully undone."
    /\ fd_end_point_mm # None
    /\ fd_point_selection_mode = "start"

----------------------------------------------------------------------------
(* C28 *)

\* an execute_move that was accepted, ran to its end and wrote no line: both
\* step counts of the move are zero
C28_sl_silent_move ==
    /\ program = "sl"
    /\ sl_call' = "execute_move"
    /\ sl_start_point # None /\ sl_end_point # None
    /\ sl_dialog' = "" /\ sl_exception' = "" /\ sl_sent' = <<>>
C28_fd_silent_move ==
    /\ program = "fd"
    /\ fd_call' = "execute_move"
    /\ fd_start_point_mm # None /\ fd_end_point_mm # None
    /\ fd_dialog' = "" /\ fd_write_errors' = 0 /\ fd_sent' = <<>>

\* an execute_move that was rejected with a dialog
C28_sl_rejected_move ==
    /\ program = "sl"
    /\ sl_call' = "execute_move"
    /\ sl_dialog' \in {"Action Required", "Movement Limit Exceeded"}
C28_fd_rejected_move ==
    /\ program = "fd"
    /\ fd_call' = "execute_move"
    /\ fd_dialog' \in {"Action Required", "Workspace Violation"}

\* C28: in both point-to-point tools a single undo writes the inverse of the
\* last accepted move that sent at least one line, regardless of any
\* zero-delta or rejected moves executed after it.  undo writes what the
\* last-move record holds, so the record of a move that sent a line must
\* survive every later execute_move that sends nothing
C28_UndoRecordSurvivesSilentMoves ==
    [][/\ C28_sl_silent_move \/ C28_sl_rejected_move => sl_last_move' = sl_last_move
       /\ C28_fd_silent_move \/ C28_fd_rejected_move =>
              fd_last_move_steps' = fd_last_move_steps]_vars

\* what the code does keep: a rejected execute_move leaves the record alone
C28_UndoRecordSurvivesRejectedMoves ==
    [][/\ C28_sl_rejected_move => sl_last_move' = sl_last_move
       /\ C28_fd_rejected_move => fd_last_move_steps' = fd_last_move_steps]_vars

----------------------------------------------------------------------------
(* C29 *)

\* a move_motors back to the position A that the move_motors before it started
\* from: the sliders are at A again when Move Motors is pressed
C29_move_back ==
    /\ program = "lr"
    /\ lr_call' = "move_motors"
    /\ lr_last.moved
    /\ <<lr_theta_slider, lr_inout_slider>> = lr_last.from

\* the two moves wrote step values that sum to 0 on both axes, and the stored
\* position is A again
C29_nets_to_zero ==
    /\ ValueOn(lr_last.sent, "r") + ValueOn(lr_sent', "r") = 0
    /\ ValueOn(lr_last.sent, "i") + ValueOn(lr_sent', "i") = 0
    /\ lr_get_current_position(lr_positions') = lr_last.from

\* C29: in the absolute-target tool, for any persisted position A and target
\* B, move_motors to B followed by move_motors back to A writes rotation step
\* values that sum to 0 and in/out step values that sum to 0, and the
\* persisted position is A again
C29_OutAndBackNetsToZero ==
    [][C29_move_back => C29_nets_to_zero]_vars

\* what holds: the pairs of moves in which no write raised net to zero
C29_OutAndBackNetsToZeroWithoutFailure ==
    [][(/\ C29_move_back
        /\ lr_get_current_position(lr_positions) # lr_last.from
        /\ lr_exception' = "")
       => C29_nets_to_zero]_vars

====
